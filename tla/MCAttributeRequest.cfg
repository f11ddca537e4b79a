SPECIFICATION Spec
CONSTANTS
    NCells = 2
    Fill <- MCNegativeFill
    SecondaryFill <- MCSecondaryFill
    AxisMin = 5000
    Step = 3000
    TolDen = 1000
    Along <- MCAlong
    Between <- MCBetween
    Layouts <- MCLayouts
    Samples <- MCSamples
    MaxLength = 4
INVARIANTS
    TypeOK
    CrossingIsRefused
    ClosestValueIsAligned
    SurfacesAreOrdered
    OrderInv
    EmptyExactlyIfSkipped
    EnoughForMakima
    SegmentHoldsWindow
    FetchWithinTrace
    RawCoversResampled
    ResampledFillsWindow
    AttributesAgree
CHECK_DEADLOCK FALSE
