---------------------------- MODULE MCConfigFile ----------------------------
(* An instance of ConfigFile.  Every file of up to four lines over a small   *)
(* alphabet is read; a few files in which blocks, patterns and global        *)
(* directives meet are changed as well.                                      *)
EXTENDS ConfigFile

Forward(form, bind, port) == [form |-> form, bind |-> bind, port |-> port, to |-> "db:5432"]

Letters ==
  {<<"Host", "a">>, <<"Host", "w*">>, <<"HostName", "x">>, <<"User", "u">>,
   <<"Port", 2200>>, <<"LocalForward", Forward("space", "none", 8080)>>,
   <<"Compression", "yes">>, <<"Compression", "">>, <<"Ciphers", "aes">>}
RareLetters ==
  {Skipped, <<"Host", "b">>, <<"Port", 70000>>, <<"User", "v">>,
   <<"User", "">>, <<"HostName", "">>,
   <<"LocalForward", Forward("colons", "0.0.0.0", 0)>>,
   <<"LocalForward", Forward("space", "none", 0)>>,
   <<"LocalForward", Forward("other", "none", 0)>>,
   <<"DynamicForward", [Forward("space", "none", 0) EXCEPT !.to = ""]>>}

MCReadFiles == SeqOf(Letters, 4) \cup SeqOf(Letters \cup RareLetters, 3)

MCFiles ==
  { << <<"User", "u">>, <<"Host", "a">>, <<"LocalForward", Forward("colons", "0.0.0.0", 0)>>,
       <<"Host", "w*">>, <<"Compression", "">> >>,
    << <<"Host", "a">>, <<"Host", "a">> >> }

MCForwardRules == {[bind |-> "0.0.0.0", port |-> 9090, to |-> "db:5432"]}
=============================================================================
