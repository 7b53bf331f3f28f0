---------------------------- MODULE MCInputFiles ----------------------------
(***************************************************************************)
(* Command lines with every kind of input, mode and response file, on      *)
(* three disks.                                                            *)
(***************************************************************************)
EXTENDS InputFiles

MCResponseFiles ==
  "a" :> "A" @@ "./a" :> "A" @@ "b" :> "B" @@ "n1" :> "N1" @@ "n2" :> "N2" @@ "n3" :> "N3" @@ "c" :> "C"
MCContents ==
  [A |-> <<<<"-l">>>>, C |-> <<<<"@", "c">>>>, B |-> <<<<"", "x.o">>, <<"@", "b2">>>>,
   N1 |-> <<<<"@", "n2">>, <<"", "y.o">>>>, N2 |-> <<<<"--whole-archive">>, <<"@", "n3">>>>,
   N3 |-> <<<<"--no-icf">>>>]

(* Lines of three fragments, where the second may be inside a pair.        *)
Fragments ==
  {<<<<"", "x.o">>>>, <<<<"", "s.ld">>>>, <<<<"-l", "m">>>>,
   <<<<"@", "a">>, <<"", "m">>, <<"@", "./a">>, <<"", "c">>>>,
   <<<<"--whole-archive">>, <<"-Bdynamic">>, <<"", "x.o">>>>,
   <<<<"--threads">>, <<"", "8">>, <<"--daemon">>, <<"-pie">>, <<"@", "n2">>, <<"-m">>>>,
   <<<<"--threads", "8">>, <<"-T">>, <<"", "t.ld">>, <<"--stats">>, <<"--no-incremental">>>>,
   <<<<"-L", "L1">>, <<"-T", "s.ld">>, <<"-e", "go">>>>,
   <<<<"--as-needed">>, <<"-shared">>, <<"-r">>>>}
Push == <<<<"--push-state">>, <<"--as-needed">>, <<"-static">>>>
Pop == <<<<"--pop-state">>>>
StartLib == <<<<"--start-lib">>, <<"", "y.o">>>>
EndLib == <<<<"--end-lib">>, <<"--no-whole-archive">>>>
Inner == Fragments \cup {Push \o f \o Pop : f \in Fragments} \cup {StartLib \o f \o EndLib : f \in Fragments}
                   \cup {Push \o Push \o <<<<"--no-as-needed">>>> \o Pop \o <<<<"-l", "m">>>> \o Pop}

(* Lines that are refused.                                                 *)
Refused ==
  {<< >>, <<<<"@", "b">>>>, <<<<"@", "n1">>>>, <<<<"@", "c">>>>, <<<<"", "x.o">>, <<"-o">>>>, <<<<"--wrap">>>>,
   <<<<"--wrap", "f">>, <<"", "x.o">>>>, <<<<"-T", "absent.ld">>, <<"", "x.o">>>>, <<<<"-l", "absent">>>>,
   Push, Pop, StartLib, EndLib, StartLib \o StartLib, StartLib \o EndLib \o EndLib}
MCCommandLines == {a \o b \o c : a \in Fragments, b \in Inner, c \in Fragments} \cup Refused

Objects == "x.o" :> "object" @@ "y.o" :> "object" @@ "libm.so" :> "shared" @@ "libm.a" :> "archive"
Disk(scripts, refs, found, rejected, crt) ==
  [kind |-> Objects @@ [s \in scripts |-> "script"], refs |-> refs, dir |-> [s \in scripts |-> "."],
   entry |-> [s \in scripts |-> IF s = "t.ld" THEN "main" ELSE ""],
   base |-> [s \in scripts |-> IF s = "s.ld" THEN "0" ELSE ""],
   rejected |-> rejected, found |-> found, system |-> <<"S1", "S2">>, crt |-> crt]
Crt == <<"Scrt1.o", "crti.o", "crtbeginS.o", "crtendS.o", "crtn.o">>
Libm == <<"S1", <<"m", "a">>>> :> "libm.a" @@ <<"S2", <<"m", "so">>>> :> "libm.so"
LibmL == <<"L1", <<"m", "so">>>> :> "libm.so" @@ <<"L1", <<"m", "a">>>> :> "libm.a"

MCDisks ==
  {(* libc.so is a script, which names a script of its own directory.       *)
   Disk({"s.ld", "t.ld", "libc.so", "c2"},
        "s.ld" :> <<<<"", "y.o">>, <<"-l", "m">>>> @@ "t.ld" :> << >> @@
        "libc.so" :> <<<<"", "c2">>, <<"", "x.o">>>> @@ "c2" :> <<<<"-l", "m">>, <<"", "y.o">>>>,
        Libm @@ <<"S1", <<"c", "so">>>> :> "libc.so" @@ <<".", <<"c2">>>> :> "c2"
        @@ <<".", <<"x.o">>>> :> "x.o"
             @@ <<"S2", <<"y.o">>>> :> "y.o", {}, Crt),
   (* The library in one directory of -L, both ways; scripts of nothing.    *)
   Disk({"s.ld", "t.ld"}, "s.ld" :> <<<<"", "z.o">>, <<"-l", "q">>>> @@ "t.ld" :> << >>,
        Libm @@ LibmL @@ <<"S2", <<"c", "a">>>> :> "libm.a", {"t.ld"}, << >>),
   (* A script that names itself.                                           *)
   Disk({"s.ld", "t.ld"}, "s.ld" :> <<<<"", "s.ld">>>> @@ "t.ld" :> << >>,
        <<".", <<"s.ld">>>> :> "s.ld" @@ <<"S1", <<"m", "so">>>> :> "libm.so", {}, Crt)}
MCStarts == {"Scrt1.o", "crt1.o", "rcrt1.o", "y.o"}
=============================================================================
