---------------------------- MODULE MCReporting ----------------------------
(* Two investigations: the first with every kind of reply, the second with *)
(* one that is worth learning, of a cause the first may have found too.    *)
EXTENDS Reporting

MCInvestigations == 1 .. 2

Hypothesis(cause, verdict, evidence) == [cause |-> cause, verdict |-> verdict, evidence |-> evidence]
Reply(cause, hypotheses, evidence, advised) ==
    [cause |-> cause, hypotheses |-> hypotheses, evidence |-> evidence, advised |-> advised]

Sound == Reply("leak", <<Hypothesis("deploy", "odd", <<"plain">>),
                         Hypothesis("leak", "validated", <<"seen", "empty">>)>>, <<"seen", "unseen">>, TRUE)
Plain == Reply("leak", <<Hypothesis("leak", "validated", <<"seen">>)>>, <<"seen">>, FALSE)
MCReplies == [i \in MCInvestigations |->
    IF i = 2 THEN {Plain}
    ELSE {Sound,
          [Plain EXCEPT !.advised = TRUE],
          Reply("deploy", <<Hypothesis("deploy", "validated", <<"unseen">>),
                            Hypothesis(NoCause, "validated", <<"seen">>),
                            Hypothesis("leak", "invalidated", <<>>)>>, <<"unseen", "plain">>, FALSE),
          Reply("deploy", <<>>, <<"seen", "empty">>, TRUE),
          Reply(NoCause, <<Hypothesis("leak", "validated", <<"seen", "seen">>)>>, <<>>, FALSE),
          Reply(NoCause, <<>>, <<"seen", "seen", "seen">>, TRUE)}]

Found(proposed, observed, onTarget, over) ==
    [proposed |-> proposed, observed |-> observed, onTarget |-> onTarget, over |-> over]
MCFindings == [i \in MCInvestigations |->
    IF i = 2 THEN {Found("nothing", TRUE, TRUE, FALSE)}
    ELSE {Found("patch", TRUE, FALSE, FALSE), Found("text", TRUE, TRUE, TRUE),
          Found("nothing", TRUE, TRUE, FALSE), Found("nothing", FALSE, FALSE, FALSE)}]

All == [asked |-> <<"slow", "down">>, mode |-> "off", learn |-> TRUE, probe |-> TRUE,
        critique |-> TRUE, verify |-> TRUE, sandbox |-> TRUE, attempts |-> 1]
Recording == [All EXCEPT !.mode = "record", !.learn = FALSE, !.sandbox = FALSE]
MCSettings == {All, [All EXCEPT !.verify = FALSE],
               Recording, [Recording EXCEPT !.asked = <<"slow", "slow">>],
               [Recording EXCEPT !.learn = TRUE, !.verify = FALSE]}

MCObjections == {<<>>, <<"high">>, <<"medium", "low">>}
MCRebuttals == {<<>>, <<TRUE>>, <<FALSE, TRUE>>}
=============================================================================
