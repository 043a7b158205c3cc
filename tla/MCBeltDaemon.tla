---------------------------- MODULE MCBeltDaemon ----------------------------
(* Small instances of BeltDaemon for TLC. *)
EXTENDS BeltDaemon

CONSTANTS i1, i2, i3,          \* issues
          analyze, implement   \* states

MCSources == {i1, i2, i3}
MCStates  == {analyze, implement}

OneWork    == {<<i1, analyze>>}
TwoIssues  == {<<i1, analyze>>, <<i2, analyze>>}
TwoStates  == {<<i1, analyze>>, <<i2, implement>>}
ThreeWorks == {<<i1, analyze>>, <<i2, analyze>>, <<i3, implement>>}

OneGated == {<<i2, analyze>>}
OneDep   == {<<<<i2, analyze>>, <<i1, analyze>>>>}

NoRules      == << >>
DefaultRules == (1 :> "retry") @@ (2 :> "retry_with_comment") @@ (3 :> "hitl")
SkipRules    == (1 :> "retry") @@ (2 :> "skip")
=============================================================================
