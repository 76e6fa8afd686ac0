---------------------------- MODULE MCEngineRun -----------------------------
(* Instances of EngineRun for TLC: two distributions of one engine and one  *)
(* of another, and the files a/x, a_x, x and some that share names with them. *)
EXTENDS EngineRun, TLC

TwoOfOne == "adapter" :> "dirsig" @@ "fork" :> "dirsig" @@ "satsim" :> "satsim"
OneEach  == {"adapter" :> "1" @@ "fork" :> "absent" @@ "satsim" :> "1"}

\* a/b_x, a/x, a_x, b/x, one that is no artifact name, and x.
SomePathsInOrder ==
  << <<<<"a">>, <<"b", "x">>>>, <<<<"a">>, <<"x">>>>, <<<<"a", "x">>>>, <<<<"b">>, <<"x">>>>,
     <<<<"odd">>>>, <<<<"x">>>> >>
TheOdd == {<<<<"odd">>>>}
=============================================================================
