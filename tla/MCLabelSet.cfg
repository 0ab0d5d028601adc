SPECIFICATION Spec
CONSTANTS
  Runes = {"x", "N", " ", "{", "}", "=", ","}
  MaxLen = 7
  Peers <- MCPeers
INVARIANT PoolIndependent
INVARIANT ParsedIsClean
INVARIANT NormalizedMeansTheSame
INVARIANT PeerIdentityKept
INVARIANT DictLabelSetFromTree
