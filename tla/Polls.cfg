\* Two rounds, each of five or six polls; two polls of a round are chosen to be repeated up to twice.
SPECIFICATION PollsFairSpec
CONSTANTS
  Nodes <- MCNodes
  Start = "start"
  Finish = "finish"
  Edges <- MCEdges
  Skips = {"a"}
  Stops = {"a"}
  Acts <- MCActs
  MaxDepth = 2
  Sizes = {5, 6}
  Rounds = 2
  Duplicate = 2
  Repeat = 2
  None = None
INVARIANTS PollsTypeOK RoundIsFull
PROPERTIES Ends
\* The command ends.
CHECK_DEADLOCK FALSE
