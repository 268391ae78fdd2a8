SPECIFICATION Spec
CONSTANTS
  p1 = p1
  p2 = p2
  p3 = p3
  NoPlayer = NoPlayer
  Setups <- MCSetups
  tokensToWin <- MCTokens
  X = X
  O = O
  Nobody = Nobody
  Penalties = {"lose_turn", "lose_game"}
  Positions <- MCPositions
  Iterations = 4
INVARIANTS  TicTacToeSound
PROPERTIES  SearchSound
CHECK_DEADLOCK FALSE
