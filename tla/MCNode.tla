------------------------------- MODULE MCNode -------------------------------
(***************************************************************************)
(* TLC instance of the parts of the node that share no state with one      *)
(* another: a behaviour is one of one part, chosen in the beginning, while *)
(* the others stay where they start.                                       *)
(***************************************************************************)
EXTENDS Pland, Detector, MotionFilter, Report, PoseHistory, PosControl, Autopilot,
        Ntrip, Recorder, MavrosBridge, Gimbal

VARIABLE part

mcVars == <<part, plandVars, detVars, motionVars, reportVars, historyVars,
            controlVars, autoVars, ntripVars, recVars, bridgeVars, gimbalVars>>

MCVectors == {<<1, 2, 3>>}
MCYaws == {-3, 0, 2}
MCAngles == {0, 100}
MCPitchMin == -90
MCGoals == {1500, 35000}

\* The limits of this instance are the defaults of the code (tracker/config.hpp).
ASSUME MCLimitsFit == LimitsFit

MCParts == {"pland", "detector", "filter", "report", "poses", "control", "autopilot", "ntrip", "recorder", "bridge",
            "gimbal"}

\* Where a part starts is one state for the parts not chosen.
MCInit ==
  /\ part \in MCParts
  /\ PlandInit
  /\ DetInit
  /\ MotionInit
  /\ ReportInit
  /\ HistoryInit
  /\ ControlInit
  /\ AutoInit
  /\ NtripInit
  /\ RecInit
  /\ BridgeInit
  /\ GimbalInit
  /\ part # "pland" => vision = FALSE
  /\ part # "filter" => spot = 0
  /\ part # "report" => checked = FALSE
  /\ part # "autopilot" => fcuMode = Guided
  /\ part # "bridge" => heading = 0

OnlyPland(A) ==
  /\ part = "pland" /\ UNCHANGED <<part, detVars, motionVars, reportVars, historyVars,
                 controlVars, autoVars, ntripVars, recVars, bridgeVars, gimbalVars>>
  /\ A

OnlyDetector(A) ==
  /\ part = "detector" /\ UNCHANGED <<part, plandVars, motionVars, reportVars, historyVars,
                 controlVars, autoVars, ntripVars, recVars, bridgeVars, gimbalVars>>
  /\ A

OnlyFilter(A) ==
  /\ part = "filter" /\ UNCHANGED <<part, plandVars, detVars, reportVars, historyVars,
                 controlVars, autoVars, ntripVars, recVars, bridgeVars, gimbalVars>>
  /\ A

OnlyReport(A) ==
  /\ part = "report" /\ UNCHANGED <<part, plandVars, detVars, motionVars, historyVars,
                 controlVars, autoVars, ntripVars, recVars, bridgeVars, gimbalVars>>
  /\ A

OnlyPoses(A) ==
  /\ part = "poses" /\ UNCHANGED <<part, plandVars, detVars, motionVars, reportVars,
                 controlVars, autoVars, ntripVars, recVars, bridgeVars, gimbalVars>>
  /\ A

OnlyControl(A) ==
  /\ part = "control" /\ UNCHANGED <<part, plandVars, detVars, motionVars, reportVars,
                 historyVars, autoVars, ntripVars, recVars, bridgeVars, gimbalVars>>
  /\ A

OnlyAutopilot(A) ==
  /\ part = "autopilot" /\ UNCHANGED <<part, plandVars, detVars, motionVars, reportVars,
                 historyVars, controlVars, ntripVars, recVars, bridgeVars, gimbalVars>>
  /\ A

OnlyNtrip(A) ==
  /\ part = "ntrip" /\ UNCHANGED <<part, plandVars, detVars, motionVars, reportVars,
                 historyVars, controlVars, autoVars, recVars, bridgeVars, gimbalVars>>
  /\ A

OnlyRecorder(A) ==
  /\ part = "recorder" /\ UNCHANGED <<part, plandVars, detVars, motionVars, reportVars,
                 historyVars, controlVars, autoVars, ntripVars, bridgeVars, gimbalVars>>
  /\ A

OnlyBridge(A) ==
  /\ part = "bridge" /\ UNCHANGED <<part, plandVars, detVars, motionVars, reportVars,
                 historyVars, controlVars, autoVars, ntripVars, recVars, gimbalVars>>
  /\ A

OnlyGimbal(A) ==
  /\ part = "gimbal" /\ UNCHANGED <<part, plandVars, detVars, motionVars, reportVars,
                 historyVars, controlVars, autoVars, ntripVars, recVars, bridgeVars>>
  /\ A

MCNext ==
  \/ OnlyPland(PlandNext)
  \/ OnlyDetector(DetNext)
  \/ OnlyFilter(MotionNext)
  \/ OnlyReport(ReportNext)
  \/ OnlyPoses(HistoryNext)
  \/ OnlyControl(ControlNext)
  \/ OnlyAutopilot(AutoNext)
  \/ OnlyNtrip(NtripNext)
  \/ OnlyRecorder(RecNext)
  \/ OnlyBridge(BridgeNext)
  \/ OnlyGimbal(GimbalNext)

MCSpec ==
  /\ MCInit /\ [][MCNext]_mcVars
  /\ WF_mcVars(OnlyPland(PlandStep)) /\ WF_mcVars(OnlyPland(Altitude))
  /\ WF_mcVars(OnlyDetector(DetStep)) /\ WF_mcVars(OnlyDetector(Camera))
  /\ WF_mcVars(OnlyFilter(UpdateMotion))
  /\ WF_mcVars(OnlyNtrip(NtripStep)) /\ WF_mcVars(OnlyNtrip(TickStart))
  /\ WF_mcVars(OnlyNtrip(TickUpdate)) /\ WF_mcVars(OnlyNtrip(KernelGivesUp))
  /\ WF_mcVars(OnlyRecorder(CheckRecord))
  /\ \A p \in Pids :
       /\ WF_mcVars(OnlyRecorder(Reap(p)))
       /\ WF_mcVars(OnlyRecorder(child[p] = "ends" /\ ChildEnds(p)))
=============================================================================
