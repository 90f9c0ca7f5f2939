SPECIFICATION SocketSpec
CONSTANTS
  Svc = {a, b}
  Io = Io
  Fd = {f1, f2}
  NoFd = NoFd
  Slots = 1
  MaxAlloc = 4
  MaxPost = 4
  Accepts = 2
SYMMETRY Alike
INVARIANT NewFdAsserted
CHECK_DEADLOCK FALSE
