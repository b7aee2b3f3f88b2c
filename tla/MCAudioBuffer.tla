---------------------------- MODULE MCAudioBuffer ----------------------------
(***************************************************************************)
(* A small array for TLC, no multiple of any chunk's size.  Two chunks of  *)
(* the same size make a swap visible; the end mark is the shortest chunk.  *)
(***************************************************************************)
EXTENDS AudioBuffer

MCChunk == {"long", "short1", "short2", "eof"}
MCDataSize == [c \in MCChunk |-> CASE c = "long" -> 2
                                   [] c \in {"short1", "short2"} -> 1
                                   [] c = "eof" -> 0]
=============================================================================
