\* The event loop alone, one file with every kind of content, writes that may
\* fail: between parses the server mirrors the disk, and in the end for good.
SPECIFICATION FairSpec
CONSTANTS
  f1 = f1  f2 = f2  g1 = g1  g2 = g2
  ok1 = ok1  ok2 = ok2  anon = anon  bad = bad  alt = alt  trim = trim  prev = prev
  s1 = s1  s2 = s2  v1 = v1  v2 = v2  v3 = v3  n1 = n1  n2 = n2  e1 = e1
  None = None  Unknown = Unknown  Loop = Loop  Http = Http
  Section = {s1, s2}
  Value = {v1, v2, v3}
  Name = {n1, n2, Unknown}
  Error = {e1}
  Parse <- ParseTable
  File = {f1}
  Game = {g1}
  GameOf <- OneGame
  Content = {ok1, anon, alt, bad}
  Writable <- Any
  Thread = {Loop}
  Faults = {"write"}
  MaxVersion = 2
  MaxGen = 0
  MaxWrites = 2
  MaxDrops = 1
  EventCap = 2
INVARIANT QuiescentInSync
PROPERTY ImplementsMirror
PROPERTY EventuallyInSync
