----------------------------- MODULE MCPluginHost -----------------------------
(* Two isolated plugins, of which the later has no validator at the levels of
   the run, one whose path leaves the project and one that runs inline. *)
EXTENDS PluginHost

Isolate(levels) == [inside |-> TRUE, mode |-> "isolated", levels |-> levels]

SomePlugins ==
    <<Isolate(<<"structural", "semantic">>),
      [inside |-> FALSE, mode |-> "isolated", levels |-> <<"structural">>],
      [inside |-> TRUE, mode |-> "inline", levels |-> <<"semantic">>],
      Isolate(<<"enforcement">>)>>
=============================================================================
