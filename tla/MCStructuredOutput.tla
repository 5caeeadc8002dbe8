------------------------- MODULE MCStructuredOutput -------------------------
(* An instance of StructuredOutput for TLC: words open x* [close], in which  *)
(* a word may end while more could follow, and ends by itself after "close". *)
EXTENDS StructuredOutput

Word == ("begin" :> ("open" :> "body")
      @@ "body" :> ("x" :> "body" @@ "close" :> "end")
      @@ "end" :> <<>>)
=============================================================================
