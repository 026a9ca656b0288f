----------------------------- MODULE MCDailyRun -----------------------------
(***************************************************************************)
(* The daily run and one worker of a scan, two providers and two stocks,   *)
(* and two channels, of which the second takes shorter messages: three     *)
(* risks are one part of the first and two of the second, and one large    *)
(* risk is too long for it.  Sending shares no variable with what workers  *)
(* and providers do, so these stand still while a report is sent: only     *)
(* interleavings of steps that commute are left out.                       *)
(***************************************************************************)
EXTENDS DailyRun

CONSTANTS daily, worker, feishu, wecom, primary, fallback

MCClient == {daily, worker}
MCDeferring == {daily}
MCWorker == {worker}
MCChannels == <<feishu, wecom>>
MCLimit == [ch \in {feishu, wecom} |-> IF ch = feishu THEN 6 ELSE 4]
MCSummary == <<<<1, 1, 1>>, <<3>>>>

Undisturbed == job = "notifying" /\ job' = "notifying" => UNCHANGED fetchVars

MCSpec == Init /\ [][Next /\ Undisturbed]_vars /\ WF_vars(DailyStep)
=============================================================================
