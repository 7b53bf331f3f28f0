--------------------------- MODULE MCDaemonRelink ---------------------------
EXTENDS DaemonRelink, MCRelink

(* Input 1 can be edited in place, can move its symbol and can grow.       *)
DVersions == <<{Obj(2, 0, "a", 0, {}, {}, TRUE), Obj(2, 0, "b", 0, {}, {}, TRUE),
                Obj(2, 0, "a", 1, {}, {}, TRUE)},
               {Obj(1, 1, "c", 0, {1}, {}, FALSE)}>>
DFirst == <<Obj(2, 0, "a", 0, {}, {}, TRUE), Obj(1, 1, "c", 0, {1}, {}, FALSE)>>

Env(s, l, r, n) == [soleWriter |-> s, loadAlone |-> l, races |-> r, writes |-> n]
SoundAndAny == {Env(TRUE, TRUE, FALSE, 7), Env(FALSE, FALSE, FALSE, 4), Env(FALSE, FALSE, TRUE, 3)}
=============================================================================
