CONSTANT PipeRoom = 2
SPECIFICATION FairSpec
INVARIANTS TypeOK ShutdownOkMeansEnded PeerIsTold
PROPERTIES CancelEndsBridge DropEndsBridge ReleaseEndsBridge
