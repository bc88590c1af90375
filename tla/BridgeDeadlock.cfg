CONSTANT PipeRoom = 1
SPECIFICATION FairSpec
PROPERTIES DisconnectEndsBridge
