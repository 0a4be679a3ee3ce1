-------------------------- MODULE MCMessageHandler --------------------------
(* An instance of MessageHandler for TLC: callbacks for slow warnings, for   *)
(* errors and for everything.                                                *)
EXTENDS MessageHandler, TLC
CONSTANTS t1, t2, onSlow, onError, onAny

MCTypeOf    == onSlow :> "QtWarningMsg" @@ onError :> "QtCriticalMsg" @@ onAny :> "QtInfoMsg"
MCMessages  == {[type |-> "QtWarningMsg", text |-> "slow"], [type |-> "QtWarningMsg", text |-> "fast"],
                [type |-> "QtCriticalMsg", text |-> "slow"]}
MCPatternOf == onSlow :> {"slow"} @@ onError :> Texts @@ onAny :> Texts
=============================================================================
