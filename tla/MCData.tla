-------------------------------- MODULE MCData --------------------------------
(* What is stored and converted.  The parts share no state: a behaviour has one of them, *)
(* with the others at rest. *)
(*   "settings": preinstalled settings in YAML and a host-specific file; nothing yet of *)
(*       the user's own. *)
(*   "files": a fixed context and a volume; one client operates on files, the other opens, *)
(*       transfers and closes. *)
(*   "times" and "messages": points, intervals and the values of messages. *)
EXTENDS Settings, VirtualFiles, Times, ProtoValues
CONSTANTS p1, p2, kx, ky, v1, v2, user, host, share, plugin, c1, c2
VARIABLE part

MCLocal == <<user, host>>
MCPreinstalled == <<share>>
MCInstalled == (<<share, "yaml">> :> ((kx :> (kx :> v1)) @@ (ky :> v1)))
                @@ (<<host, "yaml">> :> (ky :> v2))

A(method, path) == [method |-> method, path |-> path, sources |-> NoPaths, flags |-> Plain, filters |-> FALSE,
                    data |-> <<>>, mask |-> "a"]
From(a, list, paths, flags) == [a EXCEPT !.sources = [list |-> list, paths |-> paths], !.flags = flags]
Force == [Plain EXCEPT !.force = TRUE]
Merging == [Force EXCEPT !.merge = TRUE]
Usb == <<"usb">>
UsbA == <<"usb", "a">>
UsbF == <<"usb", "f">>
TmpA == <<"tmp", "a">>
TmpF == <<"tmp", "f">>
Operations == {
    From(A("copy", Usb), TRUE, <<TmpA, TmpF>>, Force),
    From(A("copy", UsbF), TRUE, <<TmpA>>, Force),
    From(A("copy", UsbF), FALSE, <<TmpF>>, Plain),
    From(A("copy", UsbF), FALSE, <<TmpF>>, Force),
    From(A("copy", UsbF), FALSE, <<TmpF>>, Merging),
    From(A("copy", UsbA), FALSE, <<UsbA>>, Force),
    From(A("copy", Usb), FALSE, <<TmpA, TmpF>>, Plain),
    From(A("native_move", <<"tmp", "f", "b">>), FALSE, <<TmpA>>, Plain),
    From(A("native_move", UsbA), FALSE, <<UsbF>>, Force),
    From(A("move", UsbA), FALSE, <<UsbF>>, Force),
    From(A("remove", <<>>), TRUE, <<UsbA, UsbF>>, Plain),
    From(A("remove", <<>>), FALSE, <<UsbF>>, Force),
    From(A("create_folder", <<"usb", "n", "m">>), FALSE, <<>>, Force),
    From(A("create_folder", <<"usb", "n", "m">>), FALSE, <<>>, Plain)}
Queries == {A(m, UsbF) : m \in {"get_directory", "get_file_info"}}
           \cup {A(m, TmpF) : m \in {"list", "locate", "get_volume_info", "get_attributes", "set_attributes"}}
           \cup {A("get_context", TmpF), A("get_open_contexts", <<>>), A("clear_attributes", TmpF)}
Transfers == {[A("upload", UsbA) EXCEPT !.data = <<7, 8>>], A("upload", UsbA), [A("upload", TmpF) EXCEPT !.data = <<7>>],
              A("download", UsbA), A("read", TmpA), A("download", <<"usb", "n">>)}
Holding == {A("open_context", Usb), A("close_context", Usb), A("open_context", <<"tmp">>), A("close_context", <<"tmp">>)}
MCCalls == (c1 :> Operations \cup Queries \cup {[A("upload", UsbA) EXCEPT !.data = <<9>>]}) @@ (c2 :> Transfers \cup Holding)
MCMaxCalls == (c1 :> 1) @@ (c2 :> 2)
MCTrees == [tmp |-> (<<>> :> 0) @@ (<<"a">> :> 1) @@ (<<"f">> :> 0) @@ (<<"f", "a">> :> 2),
            usb |-> (<<>> :> 0) @@ (<<"a">> :> 3) @@ (<<"f">> :> 0) @@ (<<"f", "b">> :> 4)]
MCFiles == <<<<1>>, <<2>>, <<3, 4>>, <<5>>>>
MCChunks == {1, 2, 3, 4, 5, 7, 8, 9}

MCIntervals == {s * t : s \in {1, -1}, t \in {0, 1, 2, 9, 10, 35, 36, 72, 216, 863, 864, 865, 1728, 2160}}
MCPoints == {0, 31, 215, 216, 306, 470, 503, 539, 647}
MCTimezone == -36
MCAltzone == -72

Leaf(t, v) == [t |-> t, v |-> v]
Singles == {Leaf("bool", "true"), Leaf("uint", "1"), Leaf("sint", "-1"), Leaf("real", "1.5"), None}
Others == {Leaf("str", "s"), Leaf("bytes", "b"), Leaf("time", "p"), Leaf("span", "i")}
Tuple == [t |-> "tuple", v |-> <<Leaf("str", "tag"), Leaf("uint", "1")>>]
Empty == {[t |-> "dict", v |-> <<>>], [t |-> "list", v |-> <<>>]}
DictOf(S) == {[t |-> "dict", v |-> <<<<"a", x>>>>] : x \in S}
           \cup {[t |-> "dict", v |-> <<<<"a", x>>, <<"b", y>>>>] : x \in S, y \in S}
ListOf(S) == {[t |-> "list", v |-> <<x>>] : x \in S} \cup {[t |-> "list", v |-> <<x, y>>] : x, y \in S}
Small == {Leaf("bytes", "b"), None, Leaf("uint", "1")} \cup Empty
Nested == DictOf({Leaf("uint", "1"), [t |-> "dict", v |-> <<>>]}) \cup ListOf({Leaf("str", "s"), Tuple})
MCValues == Singles \cup Others \cup Empty \cup {Tuple} \cup DictOf(Small) \cup ListOf({Tuple, Leaf("real", "1.5")})
            \cup {[t |-> "dict", v |-> <<<<"b", x>>, <<"a", None>>>>] : x \in Nested}
            \cup {[t |-> "list", v |-> <<x>>] : x \in Nested \cup Small}

MCFields == <<[name |-> "n", label |-> "one", kind |-> "scalar"],
              [name |-> "a", label |-> "oneof", kind |-> "scalar"],
              [name |-> "b", label |-> "oneof", kind |-> "scalar"],
              [name |-> "e", label |-> "one", kind |-> "enum"],
              [name |-> "r", label |-> "repeated", kind |-> "nested"],
              [name |-> "m", label |-> "map", kind |-> "scalar"],
              [name |-> "w", label |-> "one", kind |-> "registered"],
              [name |-> "x", label |-> "one", kind |-> "nested"]>>
Scalar(v) == Leaf("scalar", v)
Obj(v) == Leaf("dict", v)
MCInputs == {
    "n" :> Scalar("1"), "n" :> None, "n" :> Obj("1"), "a" :> Scalar("0"), "b" :> Scalar("1"),
    ("a" :> Scalar("1") @@ "b" :> Scalar("2")), "e" :> Leaf("name", <<"B">>), "e" :> Leaf("name", <<"Z">>),
    "e" :> Leaf("number", "7"), "e" :> Leaf("number", "1"),
    "r" :> Obj("1"), "r" :> Leaf("list", <<Obj("1"), Obj("2")>>), "r" :> Leaf("list", <<Obj("1"), Scalar("2")>>),
    "m" :> Leaf("dict", <<<<"k", "1">>>>), "m" :> Leaf("dict", <<<<"k", "2">>, <<"l", "1">>>>), "m" :> Scalar("1"),
    "w" :> Leaf("time", "1"), "w" :> Scalar("1"), "x" :> Obj("1"), "x" :> Scalar("1"),
    "n" :> Scalar("1") @@ "a" :> Scalar("1") @@ "e" :> Leaf("name", <<"Z">>),
    "b" :> Scalar("1") @@ "e" :> Leaf("name", <<"B">>) @@ "r" :> Obj("1") @@ "w" :> Leaf("time", "1")}
Symbol == UNION {[1..n -> {"A", "B"}] : n \in 1..3}
MCSymbols == <<<<"A">>, <<"B">>>>
MCEnumerations == {s \in [1..2 -> Symbol] : s[1] # s[2]} \cup {s \in [1..3 -> {x \in Symbol : Len(x) < 3}] : IsInjective(s)}

Init ==
    /\ part \in {"settings", "files", "times", "messages"}
    /\ SettingsInit /\ VfsInit /\ TimesInit /\ ValuesInit
    /\ part # "times" => d = 0 /\ start = 0
    /\ part # "messages" => what = "variant"
Next ==
    \/ part = "settings" /\ SettingsNext /\ UNCHANGED <<part, vfsVars, timeVars, valueVars>>
    \/ part = "files" /\ VfsNext /\ UNCHANGED <<part, settingsVars, timeVars, valueVars>>
    \/ part = "times" /\ TimesNext /\ UNCHANGED <<part, settingsVars, vfsVars, valueVars>>
    \/ part = "messages" /\ ValuesNext /\ UNCHANGED <<part, settingsVars, vfsVars, timeVars>>
Spec == Init /\ [][Next]_<<part, settingsVars, vfsVars, timeVars, valueVars>>
===============================================================================
