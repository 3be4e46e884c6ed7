\* Two concurrent requests, a wire of two frames, a peer that drains its socket.
CONSTANTS
  r1 = r1
  r2 = r2
  Requests = {r1, r2}
  NoRequest = NoRequest
  SendCap = 1
  RecvCap = 2
SPECIFICATION DrainedSpec
INVARIANTS AnswerMatches NoLeak FailureTruthful IInv
PROPERTIES AnswerWins Implements ImplementsFair
