SPECIFICATION Spec
CONSTANTS
  BLOCKLEN = 2
  MaxByte = 3
  Piece <- Pieces
  Cipher <- ToyCipher
  InvCipher <- ToyInvCipher
  Xor <- ToyXor
  IV <- StartIV
  Message <- Messages
  Code <- Codes
  MaxChunk = 3
  MaxRecoveries = 2
INVARIANTS
  MessageIsRead
  CodeIsRight
