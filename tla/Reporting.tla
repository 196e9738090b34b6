----------------------------- MODULE Reporting -----------------------------
(***************************************************************************)
(* Investigations of one process from their plan to the incident memory:   *)
(* the plan warm-starts from the learned corpus, the report is written,    *)
(* calibrated and criticised, its fix verified, and what it found is       *)
(* appended to the corpus, a JSON file every run reads and rewrites        *)
(* (graph/nodes.py, incident_memory.py).  In record mode every call to the *)
(* model goes to a cassette, from which a later process replays it: the    *)
(* answers are found by what the prompts say (replay.py).                  *)
(***************************************************************************)
EXTENDS RcaReport

CONSTANTS Investigations,   \* a set of numbers: the order of a recorded batch
          Settings,         \* [asked, mode, learn, probe, critique, verify, sandbox,
                            \*  attempts]: asked[i] is what investigation i is asked
          Replies,          \* Replies[i]: what the reporter may answer
          Findings,         \* Findings[i]: what the agent may gather and propose
          Objections, Rebuttals, Scores,
          MaxMishaps

ASSUME InvestigationsAssumption == Investigations \subseteq Nat
ASSUME SettingsAssumption == \A s \in Settings : s.mode \in {"off", "record"}
ASSUME ScoresAssumption == Scores \subseteq Nat

\* Whatever is not a list in a reply is read as one.
Listed(list) == list \in Seq({list[k] : k \in DOMAIN list})
ASSUME RepliesAssumption ==
    \A i \in Investigations : \A reply \in Replies[i] :
        /\ Listed(reply.evidence) /\ Listed(reply.hypotheses)
        /\ \A k \in DOMAIN reply.hypotheses : Listed(reply.hypotheses[k].evidence)

VARIABLES pc, report, gathered, attempts, settings, mode, cassette, file, stored,
          pending, recorded, alone, mishaps, heard

run == <<pc, report, gathered, attempts>>
corpus == <<file, stored, pending, alone, mishaps>>
world == <<settings, mode, cassette, recorded, heard>>
vars == <<run, corpus, world>>

NoReport == FallbackReport
Ended == {"done", "failed"}
Learning == {"append", "truncate", "write"}

\* The corpus file holds a list of records, or nothing: it was opened for
\* writing and not written yet.
Holding(records) == <<records>>
Torn == <<>>

Init ==
    /\ settings \in Settings
    /\ mode = settings.mode
    /\ pc = [i \in Investigations |-> "plan"]
    /\ report = [i \in Investigations |-> NoReport]
    /\ gathered = [i \in Investigations |-> NoReply]
    /\ attempts = [i \in Investigations |-> 0]
    /\ cassette = <<>> /\ recorded = <<>> /\ heard = {}
    /\ file = Holding(<<>>) /\ stored = <<>>
    /\ pending = [i \in Investigations |-> <<>>]
    /\ alone = TRUE /\ mishaps = 0

(***************************************************************************)
(* The prompts of a run, by what their messages say: the agent's are a     *)
(* conversation that grows with every pass, the reporter's and the         *)
(* verifier's are written anew from what was found.                        *)
(***************************************************************************)
ReadJson(content) == IF content = Torn THEN <<>> ELSE content[1]
Priors == {ReadJson(file)[k].cause : k \in DOMAIN ReadJson(file)}

Digest(found) ==
    IF found = NoReply THEN NoReply
    ELSE [observed |-> found.observed, onTarget |-> found.onTarget, proposed |-> found.proposed]

PlanPrompt(i, priors) == [to |-> "plan", asked |-> settings.asked[i], priors |-> priors]
AgentPrompt(i, found, pass) ==
    [to |-> "agent", asked |-> settings.asked[i], found |-> Digest(found), pass |-> pass]
ReportPrompt(i, found) ==
    [to |-> "report", asked |-> settings.asked[i], found |-> Digest(found)]
VerifyPrompt(r, found) ==
    [to |-> "verify", cause |-> r.cause, advised |-> r.advised, found |-> Digest(found)]

\* The messages carry random ids, other ones in every run.
Request(i, prompt) == [says |-> prompt, ids |-> <<mode, i>>]

\* A plausible mistake: the ids go into the key.
KeyWithIds(request) == request

\* Whose request it is, and in which pass, is not in the key.
CassetteKey(request) == request.says

Answers(i, prompt, possible) ==
    LET key == CassetteKey(Request(i, prompt))
    IN  IF mode = "replay" THEN {IF key \in DOMAIN cassette THEN cassette[key] ELSE NoReply}
        ELSE possible \cup {NoReply}

\* The entry of a key is the answer that came last; heard keeps them all.
Put(i, prompt, answer) ==
    LET key == CassetteKey(Request(i, prompt))
    IN  /\ cassette' = IF mode = "record" /\ answer # NoReply
                       THEN [q \in DOMAIN cassette \cup {key} |->
                                IF q = key THEN answer ELSE cassette[q]]
                       ELSE cassette
        /\ heard' = IF mode = "record" THEN heard \cup {<<prompt, i, answer>>} ELSE heard

InTurn(i) == mode = "off" \/ \A j \in Investigations : j < i => pc[j] \in Ended
Goto(i, place) == pc' = [pc EXCEPT ![i] = place]

Plan(i) ==
    /\ pc[i] = "plan" /\ InTurn(i)
    /\ \E answer \in Answers(i, PlanPrompt(i, Priors), {"plan"}) :
          /\ Put(i, PlanPrompt(i, Priors), answer)
          /\ Goto(i, IF answer = NoReply THEN "failed" ELSE "work")
    /\ UNCHANGED <<report, gathered, attempts, corpus, settings, mode, recorded>>

\* The agent's loop, in one step: AgentGraph has it in full.  What a revision
\* gathers adds to the messages that are there; the last patch stays.
Accumulated(old, new) ==
    IF old = NoReply \/ new = NoReply THEN new
    ELSE [observed |-> old.observed \/ new.observed, over |-> old.over \/ new.over,
          onTarget |-> new.onTarget,
          proposed |-> IF "patch" \in {old.proposed, new.proposed} THEN "patch"
                       ELSE IF new.proposed = "nothing" THEN old.proposed ELSE new.proposed]

Work(i) ==
    /\ pc[i] = "work"
    /\ \E answer \in Answers(i, AgentPrompt(i, gathered[i], attempts[i]), Findings[i]) :
          /\ Put(i, AgentPrompt(i, gathered[i], attempts[i]), answer)
          /\ gathered' = [gathered EXCEPT ![i] = Accumulated(@, answer)]
          /\ Goto(i, IF answer = NoReply THEN "failed" ELSE "report")
    /\ UNCHANGED <<report, attempts, corpus, settings, mode, recorded>>

(***************************************************************************)
(* report_node.  The structured call and the text call it falls back on    *)
(* are one answer here; the probe and the panel run only when nothing is   *)
(* recorded or replayed, for the cassette would not see their calls.       *)
(***************************************************************************)
Probes(r) == settings.probe /\ mode = "off" /\ Cardinality(Competing(r.hypotheses)) >= 2

Prosecutes(r) == settings.critique /\ mode = "off" /\ r.cause # NoCause

Probed(r) ==
    IF ~Probes(r) THEN {r}
    ELSE {r} \cup {[r EXCEPT !.hypotheses = MergeProbeScores(r.hypotheses, s)] :
                      s \in [Targets(r.hypotheses) -> Scores]}

Weighed(r, observed) ==
    VerifyGrounding(CalibrateConfidence(r), observed)

Criticised(r) ==
    IF ~Prosecutes(r) THEN {r}
    ELSE {ApplyCritique(r, AdversarialCritique(o, b)) :
             o \in Objections \cup {NoReply}, b \in Rebuttals \cup {NoReply}}

Written(r) == [r EXCEPT !.page = RenderPostmortem(r)]

Report(i) ==
    /\ pc[i] = "report"
    /\ \E answer \in Answers(i, ReportPrompt(i, gathered[i]), Replies[i]) :
          /\ Put(i, ReportPrompt(i, gathered[i]), answer)
          /\ \E probed \in Probed(ParseReport(answer)) :
                \E r \in Criticised(Weighed(probed, gathered[i].observed)) :
                   report' = [report EXCEPT ![i] = Written(r)]
    /\ Goto(i, "verify")
    /\ UNCHANGED <<gathered, attempts, corpus, settings, mode, recorded>>

(***************************************************************************)
(* verify_node, with the sandbox where it is switched on and there is a    *)
(* patch to run.                                                           *)
(***************************************************************************)
Proofs(i) == IF settings.sandbox /\ HasPatch(gathered[i]) THEN SandboxVerdicts ELSE {"none"}

CanRetry(i, verdict) ==
    verdict = "unverified" /\ attempts[i] < settings.attempts /\ ~gathered[i].over

Verify(i) ==
    /\ pc[i] = "verify"
    /\ IF ~settings.verify
       THEN Goto(i, "learn") /\ UNCHANGED <<report, attempts, cassette, heard>>
       ELSE IF ~HasFix(report[i], gathered[i])
       THEN /\ report' = [report EXCEPT ![i] = Written([@ EXCEPT !.verification = "no_fix_proposed"])]
            /\ Goto(i, "learn") /\ UNCHANGED <<attempts, cassette, heard>>
       ELSE \E answer \in Answers(i, VerifyPrompt(report[i], gathered[i]),
                                  VerifyVerdicts \cup {"odd"}), proof \in Proofs(i) :
          LET verdict == Reconcile(NormalizeVerification(answer, TRUE), gathered[i].onTarget, proof)
          IN  /\ Put(i, VerifyPrompt(report[i], gathered[i]), answer)
              /\ report' = [report EXCEPT ![i] = Written([@ EXCEPT !.verification = verdict,
                                                                   !.sandbox = proof])]
              /\ IF CanRetry(i, verdict)
                 THEN attempts' = [attempts EXCEPT ![i] = @ + 1] /\ Goto(i, "work")
                 ELSE Goto(i, "learn") /\ UNCHANGED attempts
    /\ UNCHANGED <<gathered, corpus, settings, mode, recorded>>

(***************************************************************************)
(* learn_from_report and append_incident: the corpus is read to look for   *)
(* the cause, read again to append to it, and rewritten, which empties the *)
(* file first.  An unreadable file reads as an empty corpus.               *)
(***************************************************************************)
Worthy(r) == settings.learn /\ ~r.abstained /\ r.cause # NoCause
Known(r) == r.cause \in Priors

Look(i) ==
    /\ pc[i] = "learn"
    /\ IF Worthy(report[i]) /\ ~Known(report[i])
       THEN /\ pending' = [pending EXCEPT ![i] =
                  <<[cause |-> report[i].cause, seq |-> Len(ReadJson(file)), run |-> i]>>]
            /\ alone' = (alone /\ \A j \in Investigations : pc[j] \notin Learning)
            /\ Goto(i, "append")
       ELSE Goto(i, "done") /\ UNCHANGED <<pending, alone>>
    /\ UNCHANGED <<report, gathered, attempts, file, stored, mishaps, world>>

\* A plausible mistake: the record is written, and not what was there.
AppendRecordAlone(i) ==
    /\ pc[i] = "append"
    /\ Goto(i, "truncate")
    /\ UNCHANGED <<report, gathered, attempts, file, stored, pending, alone, mishaps, world>>

AppendRecord(i) ==
    /\ pc[i] = "append"
    /\ pending' = [pending EXCEPT ![i] = ReadJson(file) \o @]
    /\ Goto(i, "truncate")
    /\ UNCHANGED <<report, gathered, attempts, file, stored, alone, mishaps, world>>

Truncate(i) ==
    /\ pc[i] = "truncate"
    /\ file' = Torn
    /\ Goto(i, "write")
    /\ UNCHANGED <<report, gathered, attempts, stored, pending, alone, mishaps, world>>

WriteText(i) ==
    /\ pc[i] = "write"
    /\ file' = Holding(pending[i])
    /\ stored' = Append(stored, pending[i][Len(pending[i])])
    /\ pending' = [pending EXCEPT ![i] = <<>>]
    /\ Goto(i, "done")
    /\ UNCHANGED <<report, gathered, attempts, alone, mishaps, world>>

\* OSError, swallowed: the file could not be opened, or not written.
WriteFails(i) ==
    /\ pc[i] \in {"truncate", "write"} /\ mishaps < MaxMishaps
    /\ mishaps' = mishaps + 1
    /\ alone' = (alone /\ pc[i] # "write")
    /\ pending' = [pending EXCEPT ![i] = <<>>]
    /\ Goto(i, "done")
    /\ UNCHANGED <<report, gathered, attempts, file, stored, world>>

\* The process dies and starts again; what was under way is asked anew.
Crash ==
    /\ mode = "off" /\ mishaps < MaxMishaps
    /\ mishaps' = mishaps + 1
    /\ alone' = (alone /\ file # Torn)
    /\ LET back(f, new) == [i \in Investigations |-> IF pc[i] \in Ended THEN f[i] ELSE new]
       IN  /\ pc' = back(pc, "plan")
           /\ report' = back(report, NoReport)
           /\ gathered' = back(gathered, NoReply)
           /\ attempts' = back(attempts, 0)
           /\ pending' = back(pending, <<>>)
    /\ UNCHANGED <<file, stored, world>>

\* Another process replays the batch a first one recorded.
Replay ==
    /\ mode = "record" /\ \A i \in Investigations : pc[i] \in Ended
    /\ mode' = "replay"
    /\ recorded' = [i \in Investigations |-> [pc |-> pc[i], report |-> report[i]]]
    /\ pc' = [i \in Investigations |-> "plan"]
    /\ report' = [i \in Investigations |-> NoReport]
    /\ gathered' = [i \in Investigations |-> NoReply]
    /\ attempts' = [i \in Investigations |-> 0]
    /\ UNCHANGED <<corpus, settings, cassette, heard>>

Next ==
    \/ \E i \in Investigations :
          \/ Plan(i) \/ Work(i) \/ Report(i) \/ Verify(i)
          \/ Look(i) \/ AppendRecord(i) \/ Truncate(i) \/ WriteText(i) \/ WriteFails(i)
    \/ Crash \/ Replay

Spec == Init /\ [][Next]_vars

-----------------------------------------------------------------------------
(***************************************************************************)
(* What a reader of the page may take from it, whatever calls failed on    *)
(* the way to it and however often the fix was revised: a high confidence  *)
(* has three items of evidence, a validated hypothesis and a named cause   *)
(* behind it, most of the evidence is in the tools' output, and the panel  *)
(* let it stand; a doubt is not confident, and says what is missing; a     *)
(* verified fix names what the cause names or was proved by the            *)
(* reproducer, and none the reproducer disproved is called verified; the   *)
(* hypothesis on top is one nothing beats (nodes.py:454-871, 1114-1149).   *)
(***************************************************************************)
HighIsEarned(i, r) ==
    r.page.confidence = "high" =>
        /\ Total(r) >= 3 /\ Validated(r) /\ r.page.cause # NoCause
        /\ Corroborated(r, gathered[i].observed)
        /\ r.page.review = "none"
DoubtIsAdmitted(i, r) ==
    /\ r.page.needs # {} => r.page.confidence = "low"
    /\ r.critique = "refuted" \/ ~Corroborated(r, gathered[i].observed) => r.page.needs # {}
FixIsBacked(i, r) ==
    r.page.fix = "verified" => \/ r.page.sandbox = "resolved"
                               \/ gathered[i].onTarget /\ r.page.sandbox # "not_resolved"
BestLeads(r) == \A k \in DOMAIN r.hypotheses : r.hypotheses[k].support <= r.hypotheses[1].support

PageCanBeTrusted ==
    \A i \in Investigations :
        pc[i] \in {"verify", "learn", "done"} \cup Learning =>
            LET r == report[i]
            IN  HighIsEarned(i, r) /\ DoubtIsAdmitted(i, r) /\ FixIsBacked(i, r) /\ BestLeads(r)

(***************************************************************************)
(* The learned corpus holds what was stored, one entry for a cause, as     *)
(* long as no two runs learned at the same time and none was cut off       *)
(* between emptying the file and writing it: only then may entries be lost *)
(* or doubled (incident_memory.py:155-201).                                *)
(***************************************************************************)
LearnedIsIntact ==
    alone /\ (\A i \in Investigations : pc[i] # "write") =>
        /\ file = Holding(stored)
        /\ \A k, n \in DOMAIN stored : stored[k].cause = stored[n].cause => k = n

(***************************************************************************)
(* The prompts of a run that were answered otherwise at another time, by   *)
(* a later pass or by another run: their entries hold one of the answers.  *)
(***************************************************************************)
Clashed(i) == \E e, f \in heard : e[2] = i /\ e[1] = f[1] /\ e[3] # f[3]

(***************************************************************************)
(* A run replayed from the cassette of its batch ends as it was recorded,  *)
(* failed calls included, with the same report, if none of its prompts was *)
(* answered in two ways in the batch, if the batch added nothing to the    *)
(* corpus its plan starts from, and if no reproducer was run, which no     *)
(* cassette holds (replay.py:53-160, nodes.py:101-118, 905-942).           *)
(***************************************************************************)
ReplayReproduces ==
    mode = "replay" /\ ~settings.sandbox =>
        \A i \in Investigations : pc[i] \in Ended =>
            \/ recorded[i] = [pc |-> pc[i], report |-> report[i]]
            \/ Clashed(i)
            \/ settings.learn /\ stored # <<>>
=============================================================================
