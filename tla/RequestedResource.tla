------------------------- MODULE RequestedResource -------------------------
(***************************************************************************)
(* How a request names its VDS and how it is identified: NormalizeConnection*)
(* and the hash methods of the request types (request.go, slice.go,        *)
(* fence.go, attributes.go) over cache.Hash, and the checks of             *)
(* readConnectionParameters (endpoint.go) and MakeAzureConnection          *)
(* (connection.go).                                                        *)
(*                                                                         *)
(* A blob URL is a record of the blob and of its query string, which is a  *)
(* sas token or nothing.                                                   *)
(***************************************************************************)
EXTENDS Integers, Sequences

CONSTANTS
    Blob,       \* blobs a URL can name
    Token,      \* sas tokens
    Allowed,    \* blobs in the configured storage accounts
    PoorSrt     \* tokens whose srt lacks 'c' or 'o'

NoBlob == "no blob"
NoToken == "no token"

Url == [blob: Blob \union {NoBlob}, query: Token \union {NoToken}]

-----------------------------------------------------------------------------
(***************************************************************************)
(* The unsigned blobs and the tokens of a request, and whether it is       *)
(* accepted: either every URL is signed and no token is given, or none is. *)
(***************************************************************************)
NormalizeConnection(urls, sas) ==
    LET signed == sas = <<>> \/ sas = <<NoToken>>
        tokens == IF signed THEN [k \in DOMAIN urls |-> urls[k].query] ELSE sas
    IN  [ok |-> /\ urls # <<>>
                /\ \A k \in DOMAIN urls : urls[k].blob # NoBlob
                /\ \A k \in DOMAIN urls : (urls[k].query # NoToken) = signed
                /\ Len(urls) = Len(tokens),
         vds |-> [k \in DOMAIN urls |-> urls[k].blob],
         sas |-> tokens]

Vds(in) == NormalizeConnection(in.urls, in.sas).vds
Sas(in) == NormalizeConnection(in.urls, in.sas).sas

AnyNumberOfVds(nvds, op) == nvds = 1 <=> op = "none"

(***************************************************************************)
(* Two VDS need a binary operator, one VDS must not have one.              *)
(***************************************************************************)
OperatorFits(nvds, op) ==
    \/ nvds = 1 /\ op = "none"
    \/ nvds = 2 /\ op = "subtraction"

(***************************************************************************)
(* Whether a request reaches the cache and the storage at all.             *)
(***************************************************************************)
IsAccepted(in) ==
    /\ in.wellformed
    /\ NormalizeConnection(in.urls, in.sas).ok
    /\ OperatorFits(Len(in.urls), in.op)
    /\ \A k \in DOMAIN in.urls : Vds(in)[k] \in Allowed /\ Sas(in)[k] \notin PoorSrt

-----------------------------------------------------------------------------
(***************************************************************************)
(* gob flattens pointers and leaves zero values out: a fill value that is  *)
(* not supplied and the fill value 0 are encoded alike.                    *)
(***************************************************************************)
Gob(fill) == IF fill \in {"nil", "zero"} THEN "absent" ELSE fill

HashWithoutSupplied(in) ==
    [vds |-> Vds(in), op |-> in.op, outside |-> in.outside, fill |-> Gob(in.fill)]

(***************************************************************************)
(* The cache key: everything but the tokens.                               *)
(***************************************************************************)
Hash(in) ==
    [vds |-> Vds(in), op |-> in.op, outside |-> in.outside,
     fill |-> Gob(in.fill), isFillValueSupplied |-> in.fill # "nil"]

(***************************************************************************)
(* What a request asks for.                                                *)
(***************************************************************************)
Subject(in) ==
    [vds |-> Vds(in), op |-> in.op, outside |-> in.outside, fill |-> in.fill]
=============================================================================
