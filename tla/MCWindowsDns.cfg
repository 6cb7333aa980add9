SPECIFICATION Spec
CONSTANTS
  Ethernet = Ethernet
  wifi = wifi
  s1 = s1
  s2 = s2
  Iface <- MCIface
  NoIface = NoIface
  Server = {s1, s2}
  Loopback = Loopback
  Dhcp = Dhcp
  NoLease = NoLease
  Lease <- MCLease
  NoFile = NoFile
  Torn = Torn
INVARIANTS NoneForgotten FirstServerKept RunRestores
PROPERTY RecoveredAtOnce
