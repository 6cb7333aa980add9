SPECIFICATION FairSpec
CONSTANTS
  c1 = c1
  doh = doh
  doh6 = doh6
  web = web
  upstream = upstream
  upstream6 = upstream6
  https = https
  Zero = Zero
  NoConn = NoConn
  Conn <- MCConn
  Port <- MCPort
  Ip <- MCIp
  V6 = {upstream6}
  dstPort <- MCDstPort
  dstIp <- MCDstIp
  Ports <- MCPort
  ExcludeIPs = {upstream, upstream6}
  ExcludeMap = TRUE
  Neighbour = TRUE
  SegLens = {1, 2}
  RestoreAfterBytes = 2
  CounterMod = 4
  MaxEntries = 1
  PerfCap = 1
  MaxSent <- MCMaxSent
INVARIANTS FakeWarranted RestoredOnlyPastThreshold ExcludedNeverFaked RawOpenWhileInjecting DownReleasesAll
PROPERTIES StopCompletes EventsDrained
