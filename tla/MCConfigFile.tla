---------------------------- MODULE MCConfigFile ----------------------------
(* Small instances of ConfigFile for TLC. *)
EXTENDS ConfigFile

MCFileChars == {"a", "1", "-", " ", "=", "#", "\"", "\n", "\r"}
MCBeginnings == {<<>>, <<"a", " ">>, <<"a", " ", "\"">>, <<"a", " ", "a", "\r", "\n">>}
MCGlobChars == {"a", "A", "b", "*", "?"}
MCMatchTokens == {"all", "!all", "canonical", "host", "exec", "other"}
=============================================================================
