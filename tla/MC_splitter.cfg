\* Every vector of up to MaxBits bits in every TAP state, failures included.
CONSTANT MaxBits = 3
SPECIFICATION FairSpec
INVARIANT TypeOK
INVARIANT DrivesClientTms
INVARIANT TracksTap
INVARIANT DataWhenTapShifts
INVARIANT IndInv
PROPERTY ImplementsStream
PROPERTY CallsReturn
