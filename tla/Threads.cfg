CONSTANTS
  MaxStarts = 2
  MaxRetries = 1
  MaxSessions = 2
  MaxTime = 2
  MaxFaults = 2
  NoError = NoError  PricePollNotRunning = PricePollNotRunning
  ConnectionError = ConnectionError  OtherError = OtherError
  Nobody = Nobody  Main = Main  Torn = Torn
SPECIFICATION Spec
INVARIANTS TypeOK OneThread
PROPERTIES ReadsAreGood  MainRecovers
CHECK_DEADLOCK FALSE
