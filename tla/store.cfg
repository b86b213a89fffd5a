SPECIFICATION ParquetSpec
CONSTANTS
  Jobs <- MCOneJob
  Stamps <- MCStamps
  MaxVersion = 1
  MaxCrashes = 1
INVARIANT AckedRowsSurvive
PROPERTY UpsertsUnlessTorn
