------------------------------ MODULE MCShell ------------------------------
(* An instance of Shell for TLC. *)
EXTENDS Shell

\* e is echo, c is cat; there is no m.
Programs == (<<"e">> :> "echo") @@ (<<"c">> :> "cat")

SmallArgs == {<<>>, <<<<"e">>>>, <<<<"c", "c">>, <<"e">>>>}
SmallFile == <<"f">>

SmallLines == {<<"e", "|", "c">>,
               <<"m", "|", "e", "|", "c", "&">>,
               <<"e", "&", ";", "c", "<", "f", ">", "f">>,
               <<"e", "&", "c">>,
               <<"c", "d", " ", "f">>}

AtBoot == proc[1].at = "init" /\ typed = 0 /\ sh = 0

\* The parser, which every line goes through, is compared with its meaning once.
ParserCorrect == AtBoot => ParserFaithful
=============================================================================
