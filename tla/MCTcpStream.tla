----------------------------- MODULE MCTcpStream -----------------------------
EXTENDS TcpStream

(* The first byte is two below the wrap. *)
MCISS == SeqSpace - 2

OneOrTwoSegments == {MSS, 2 * MSS}
OneOrSegment == {1, MSS}
OneOrAll == {1, RcvBuf}
=============================================================================
