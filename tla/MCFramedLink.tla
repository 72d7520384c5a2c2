---------------------------- MODULE MCFramedLink ----------------------------
(* FramedLink on scaled-down sizes: a message header of 2 bytes, an         *)
(* envelope header of 3, batches from 5 bytes on, messages of 2 (header     *)
(* only), 4 and, the largest a session sends, 6 bytes, and plain messages   *)
(* of up to 12.                                                             *)
EXTENDS FramedLink

BadMessage(size) == [n |-> 0, size |-> size]

(* One malformed frame for every way out of Feed() with an error.           *)
MalformedFrames ==
  { (* dwSize below the header, and above the maximum *)
    [dwSize |-> 1, bytes |-> 2, kind |-> "message", inner |-> << BadMessage(1) >>, length |-> 1],
    [dwSize |-> 13, bytes |-> 13, kind |-> "message", inner |-> << BadMessage(13) >>, length |-> 13],
    (* an envelope below its own header, one that does not unpack *)
    [dwSize |-> 2, bytes |-> 2, kind |-> "raw", inner |-> << >>, length |-> 0],
    [dwSize |-> 5, bytes |-> 5, kind |-> "corrupt", inner |-> << >>, length |-> 0],
    (* an inner message that is larger than what is left of the envelope *)
    [dwSize |-> 7, bytes |-> 7, kind |-> "raw", inner |-> << BadMessage(2), BadMessage(3) >>, length |-> 4],
    (* an inner message below the header *)
    [dwSize |-> 5, bytes |-> 5, kind |-> "lzo", inner |-> << BadMessage(1) >>, length |-> 3] }
=============================================================================
