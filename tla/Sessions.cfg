SPECIFICATION Spec
CONSTANTS
  Clients = {c1, c2}
  Ips = {i1, i2, i3}
  Names = {n1}
  NoName = NoName
  NoIp = NoIp
  MaxSessions = 1
  MaxSessionId = 4
SYMMETRY Sym
INVARIANTS
  SessTypeOK
  SessionBound
  OneHeir
