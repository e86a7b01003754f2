------------------------------ MODULE Reports -------------------------------
(***************************************************************************)
(* The reports of runtime/weavec_report.c: the table that keeps a program  *)
(* in report mode to one line per failing site while its threads report at *)
(* once, the trap that ends every other failure, and the handler of the    *)
(* faults the shadow did not see.  Lines are not written out: printing one *)
(* counts it.  A site is its hash (siteHash), which no two sites share.    *)
(***************************************************************************)
EXTENDS Naturals, FiniteSets

CONSTANTS Reporters,    \* the program's threads
          Sites,        \* the hashes of failing sites, none of them 0
          SiteSlots,    \* the slots of reportedSites
          MaxFailures,  \* bound: the failures of a behaviour
          MaxActions    \* bound: the program's own calls of sigaction

ASSUME ReportsAssumption == /\ Sites \subseteq Nat \ {0}
                            /\ SiteSlots \in Nat \ {0}
                            /\ MaxFailures \in Nat
                            /\ MaxActions \in Nat

VARIABLES reportedSites, abortSetting, reporter, failed, lines,
          disposition, saved, actions, faultLines, program

siteVars == <<reportedSites, failed, lines>>
faultVars == <<disposition, saved, actions, faultLines>>
reportVars == <<siteVars, abortSetting, reporter, faultVars, program>>

Quiet == [at |-> "run", site |-> 0, probe |-> 0, pending |-> FALSE]
Going == program = "runs"
Goes(t, r) == reporter' = [reporter EXCEPT ![t] = r]

\* What a signal does: the runtime's handler is reset by its delivery
\* (SA_RESETHAND), unless a program that saved and restored it dropped that.
Dispositions == {"default", "runtime", "restored", "own"}

\* watchFaults: the runtime's handler goes where the disposition is the
\* default, unless WEAVEC_RT_FAULTS=0.
ReportsInit ==
  /\ reportedSites = [k \in 0..(SiteSlots - 1) |-> 0]
  /\ abortSetting \in BOOLEAN
  /\ reporter = [t \in Reporters |-> Quiet]
  /\ failed = [s \in Sites |-> 0] /\ lines = [s \in Sites |-> 0]
  /\ disposition \in {"default", "runtime", "own"}
  /\ saved = FALSE /\ actions = 0
  /\ faultLines = 0
  /\ program = "runs"

-----------------------------------------------------------------------------
(* reportLine, firstReport and stop.                                       *)
(***************************************************************************)
Failures == LET total[S \in SUBSET Sites] ==
                  IF S = {} THEN 0
                  ELSE LET s == CHOOSE x \in S : TRUE
                       IN failed[s] + total[S \ {s}]
            IN total[Sites]

\* A guard fails at a site in report mode, or anywhere with WEAVEC_RT_ABORT:
\* the second prints its lines and traps, in one step here.
Fails(t, s) ==
  /\ Going /\ reporter[t] = Quiet /\ Failures < MaxFailures
  /\ failed' = [failed EXCEPT ![s] = @ + 1]
  /\ IF abortSetting
     THEN /\ lines' = [lines EXCEPT ![s] = @ + 1]
          /\ program' = "trapped"
          /\ UNCHANGED reporter
     ELSE /\ Goes(t, [Quiet EXCEPT !.at = "load", !.site = s])
          /\ UNCHANGED <<lines, program>>
  /\ UNCHANGED <<reportedSites, abortSetting, faultVars>>

SlotAt(t) == (reporter[t].site + reporter[t].probe) % SiteSlots

\* The next probe, or the line is printed because the table is full.
NextProbe(r) == IF r.probe + 1 < SiteSlots
                THEN [r EXCEPT !.at = "load", !.probe = @ + 1]
                ELSE [r EXCEPT !.at = "print"]

\* What the load of a slot, or the compare and exchange that failed, saw.
Seen(r, hash) == IF hash = r.site THEN Quiet ELSE NextProbe(r)

LoadSlot(t) ==
  /\ Going /\ reporter[t].at = "load"
  /\ Goes(t, IF reportedSites[SlotAt(t)] = 0
             THEN [reporter[t] EXCEPT !.at = "claim"]
             ELSE Seen(reporter[t], reportedSites[SlotAt(t)]))
  /\ UNCHANGED <<siteVars, abortSetting, faultVars, program>>

\* Mutant: the slot another thread took is passed over unread.
ClaimSlotUnread(t) ==
  /\ Going /\ reporter[t].at = "claim"
  /\ IF reportedSites[SlotAt(t)] = 0
     THEN /\ reportedSites' = [reportedSites EXCEPT ![SlotAt(t)] =
                                                          reporter[t].site]
          /\ Goes(t, [reporter[t] EXCEPT !.at = "print"])
     ELSE /\ Goes(t, NextProbe(reporter[t]))
          /\ UNCHANGED reportedSites
  /\ UNCHANGED <<failed, lines, abortSetting, faultVars, program>>

\* Mutant: the slot is claimed for a site that is not printed.
ClaimSlotSilent(t) ==
  /\ Going /\ reporter[t].at = "claim"
  /\ IF reportedSites[SlotAt(t)] = 0
     THEN /\ reportedSites' = [reportedSites EXCEPT ![SlotAt(t)] =
                                                          reporter[t].site]
          /\ Goes(t, Quiet)
     ELSE /\ Goes(t, Seen(reporter[t], reportedSites[SlotAt(t)]))
          /\ UNCHANGED reportedSites
  /\ UNCHANGED <<failed, lines, abortSetting, faultVars, program>>

\* The compare and exchange.
ClaimSlot(t) ==
  /\ Going /\ reporter[t].at = "claim"
  /\ IF reportedSites[SlotAt(t)] = 0
     THEN /\ reportedSites' = [reportedSites EXCEPT ![SlotAt(t)] =
                                                          reporter[t].site]
          /\ Goes(t, [reporter[t] EXCEPT !.at = "print"])
     ELSE /\ Goes(t, Seen(reporter[t], reportedSites[SlotAt(t)]))
          /\ UNCHANGED reportedSites
  /\ UNCHANGED <<failed, lines, abortSetting, faultVars, program>>

PrintLine(t) ==
  /\ Going /\ reporter[t].at = "print"
  /\ lines' = [lines EXCEPT ![reporter[t].site] = @ + 1]
  /\ Goes(t, Quiet)
  /\ UNCHANGED <<reportedSites, failed, abortSetting, faultVars, program>>

-----------------------------------------------------------------------------
(* Faults.  A signal delivered under the default disposition ends the      *)
(* program; a handler runs with its signal blocked.                        *)
(***************************************************************************)
ProgramSigaction ==
  /\ Going /\ actions < MaxActions
  /\ actions' = actions + 1
  /\ saved' = (saved \/ disposition \in {"runtime", "restored"})
  /\ disposition' \in {"own"} \cup (IF saved THEN {"restored"} ELSE {})
  /\ UNCHANGED <<siteVars, abortSetting, reporter, faultLines, program>>

\* The delivery of a fault (sent = FALSE), which its access repeats when the
\* handler returns, or of a signal sent, which nothing repeats.
Delivered(t, sent) ==
  CASE disposition = "default" ->
         /\ program' = "killed"
         /\ UNCHANGED <<reporter, disposition>>
    [] disposition \in {"runtime", "restored"} ->
         /\ Goes(t, [Quiet EXCEPT !.at = IF sent THEN "sent" ELSE "fault"])
         /\ disposition' = IF disposition = "runtime" THEN "default"
                                                      ELSE disposition
         /\ UNCHANGED program
    [] disposition = "own" -> Goes(t, Quiet)
                              /\ UNCHANGED <<disposition, program>>

Signalled(t, sent) ==
  /\ Going /\ reporter[t] = Quiet
  /\ Delivered(t, sent)
  /\ UNCHANGED <<siteVars, abortSetting, saved, actions, faultLines>>

\* onFault prints its lines unless the signal was sent.
ReportFault(t) ==
  /\ Going /\ reporter[t].at = "fault"
  /\ faultLines' = 1
  /\ Goes(t, [reporter[t] EXCEPT !.at = "sent"])
  /\ UNCHANGED <<siteVars, abortSetting, disposition, saved, actions, program>>

\* Mutant: the disposition is left to SA_RESETHAND.
RaiseDefaultReset(t) ==
  /\ Going /\ reporter[t].at = "sent"
  /\ Goes(t, [reporter[t] EXCEPT !.at = "return", !.pending = TRUE])
  /\ UNCHANGED <<siteVars, abortSetting, faultVars, program>>

\* raiseDefault: the signal is blocked, and pending until the return.
RaiseDefault(t) ==
  /\ Going /\ reporter[t].at = "sent"
  /\ disposition' = "default"
  /\ Goes(t, [reporter[t] EXCEPT !.at = "return", !.pending = TRUE])
  /\ UNCHANGED <<siteVars, abortSetting, saved, actions, faultLines, program>>

ReturnFromHandler(t) ==
  /\ Going /\ reporter[t].at = "return"
  /\ Delivered(t, reporter[t].pending)
  /\ UNCHANGED <<siteVars, abortSetting, saved, actions, faultLines>>

ReporterStep(t) == \/ LoadSlot(t) \/ ClaimSlot(t) \/ PrintLine(t)
                   \/ ReportFault(t) \/ RaiseDefault(t) \/ ReturnFromHandler(t)

ReportsNext == \/ ProgramSigaction
               \/ \E t \in Reporters :
                    \/ \E s \in Sites : Fails(t, s)
                    \/ \E sent \in BOOLEAN : Signalled(t, sent)
                    \/ ReporterStep(t)

ReportsSpec == ReportsInit /\ [][ReportsNext]_reportVars

\* A thread inside the runtime goes on.
ReportsFairness == \A t \in Reporters : WF_reportVars(ReporterStep(t))

-----------------------------------------------------------------------------
(* Properties.                                                             *)
(***************************************************************************)

\* A site is printed twice only when the table was full before it came,
\* whichever threads fail there at once (firstReport).
OncePerSite ==
  \A s \in Sites : lines[s] > 1 => \A k \in DOMAIN reportedSites :
                                      reportedSites[k] \notin {0, s}

\* A site that failed is printed, by this thread or by the one it lost the
\* slot to, unless the program ended first.
EverySiteReported ==
  \A s \in Sites : failed[s] > 0 ~> lines[s] > 0 \/ program # "runs"

\* A signal the runtime's handler took ends the program, though a program
\* restored that handler without SA_RESETHAND, unless it has installed its
\* own by then.
FaultEnds ==
  \A t \in Reporters : reporter[t].at \in {"fault", "sent", "return"} ~>
                         program # "runs" \/ disposition = "own"
=============================================================================
