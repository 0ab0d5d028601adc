SPECIFICATION Spec
CONSTANTS
  Runes = {"x", "{", "}", "=", ":"}
  MaxLen = 6
  Peers <- MCPeers
INVARIANT TreeKeyParses
