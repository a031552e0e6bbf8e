CONSTANTS
  Flavours = {TRUE, FALSE}
  Asks = {"proxy", "post", "connect", "self", "stop", "bad"}
  Answers = {"none", "len", "lenclose", "cut", "chunked", "badchunk",
             "cutchunk", "close", "badhead", "bodyless", "interim", "eof"}
  MaxReq = 2
SPECIFICATION Spec
INVARIANTS TypeOK Faithful
PROPERTIES AnsweredOrEnded Released
CHECK_DEADLOCK FALSE
