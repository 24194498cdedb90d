-------------------------------- MODULE MCCli --------------------------------
(***************************************************************************)
(* Two inputs a and b and an output o; the output may also be an input.    *)
(***************************************************************************)
EXTENDS Cli

MCPlaces == {"a", "b", "o"}
MCSizeOf == [n \in {"old", "new", "empty", "other", "patch"} |->
                CASE n = "old" -> 6 [] n = "new" -> 8 [] n = "other" -> 1 [] n = "patch" -> 2 [] n = "empty" -> 0]

Special == Content("special", "", {}, 0)

MCFileSystems ==
    {[p \in MCPlaces |-> CASE p = "a" -> x [] p = "b" -> y [] p = "o" -> z] :
        x \in {Named("file", "old"), Named("dir", "old"), Special},
        y \in {Named("file", "new"), Named("dir", "new"), Named("file", "empty"),
               PatchOf(Named("file", "old"), Named("file", "new"), 2),
               PatchOf(Named("dir", "old"), Named("dir", "new"), 2)},
        z \in {Absent, Named("file", "other")}}

MCStreams == {Named("file", "new"), PatchOf(Named("file", "old"), Named("file", "new"), 2),
              PatchOf(Named("dir", "old"), Named("dir", "new"), 2)}

MCOptions ==
    {o \in [mode : {"diff", "patch", "inspect"}, rules : BOOLEAN, omit : BOOLEAN,
            first : {"a", "b", "-"}, second : {"b", "-", ""}, output : {"o", "a", "b", "@stdout"},
            bytes : {0, 3}, ratio : {0, 50}, wall : BOOLEAN] :
        /\ ~(o.rules /\ o.omit)
        /\ o.mode # "diff" => o.ratio = 0
        /\ o.first = "b" <=> o.mode = "inspect"
        /\ o.wall => o.bytes = 3 /\ ~o.rules /\ ~o.omit}
=============================================================================
