---------------------------- MODULE MCPipelineRuns ----------------------------
(***************************************************************************)
(* One run of either pipeline, with the stages that differ in how the code   *)
(* treats them: an optional branch, the monitor, risk, the execution and an*)
(* optional stage that always runs.  The optional stages left out (feature,*)
(* regime, order flow, SMC, fusion, participation, watchlist, recovery) are*)
(* treated like "market" or like "phase2_daily_checkpoint".                *)
(***************************************************************************)
EXTENDS PipelineRuns

MCStageOrder == <<"market", "paper_trade_monitor", "risk", "paper_trade_execute",
                  "phase2_daily_checkpoint">>
MCCycleOrder == <<"paper_trade_monitor", "risk", "paper_trade_execute">>
MCAlwaysRun == {"paper_trade_monitor", "phase2_daily_checkpoint"}
MCNonBlocking == {"market", "phase2_daily_checkpoint"}
MCRequired == {"market", "risk"}

MCOutcomes == [s \in Stages |->
    CASE s = "market"              -> {"ok", "failed"}
      [] s = "paper_trade_monitor" -> {"ok", "shadow", "degraded", "other", "raised"}
      [] s = "risk"                -> {"ok", "degraded", "failed"}
      [] s = "paper_trade_execute" -> {"ok", "failed"}
      [] OTHER                     -> {"other"}]
=============================================================================
