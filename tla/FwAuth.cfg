SPECIFICATION Spec
CONSTANTS
  i1 = i1 i2 = i2 i3 = i3 k0 = k0 k1 = k1 lmt = lmt arc = arc
  NumParts = 1
  NumPages = 2
  Targets = {lmt}
  TargetOf <- OneTarget
  DefaultActive <- ActiveOne
  Images = {i1, i2}
  Size <- MCSize
  Svn <- MCSvn
  SvnMax = 1
  Keys = {k0, k1}
  DefaultKey = k0
  Factory = Factory
  Blank = Blank
  Torn = Torn
  Auth = TRUE
  SignedWith <- MCSigned
  Corrupt = Corrupt
  NoHeader = NoHeader
  BlockNumMod = 4
  FirstBlockNums = {0}
  Empty = Empty
  Updating = Updating
INVARIANTS WholeOrInconsistent CopiesAgree IndInv
PROPERTIES StaysRecoverable SvnNeverFalls
