----------------------------- MODULE MCEnvelope -----------------------------
(***************************************************************************)
(* Small requests: protections of f, rekeyings from f to g and from g to   *)
(* h, and a batch that writes f and g.  A removal may come with an empty   *)
(* id, as of a list that ends with a comma.                                *)
(***************************************************************************)
EXTENDS Envelope, TLC

CONSTANTS p1, p2, f, g, h, pw, pw2, raw, alice, bob

Job ==
    [op |-> "protect", in |-> f, outs |-> <<f>>, cred |-> NoCredential, ids |-> {},
     new |-> NoCredential, pubs |-> <<>>, removes |-> {},
     overwrite |-> FALSE, verify |-> FALSE, more |-> FALSE]

Protect(cred, pubs, overwrite, verify) ==
    [Job EXCEPT !.cred = cred, !.pubs = pubs, !.overwrite = overwrite, !.verify = verify]

Batch(outs, more, verify) ==
    [Job EXCEPT !.outs = outs, !.cred = pw, !.more = more, !.verify = verify]

Rekeys ==
    {[Job EXCEPT !.op = "rekey", !.in = step[1], !.outs = <<step[2]>>,
                 !.cred = auth[1], !.ids = auth[2], !.new = new, !.pubs = pubs, !.removes = removes] :
        step \in {<<f, g>>, <<g, h>>},
        auth \in {<<pw, {}>>, <<raw, {}>>, <<NoCredential, {alice}>>},
        new \in {NoCredential, raw, pw2}, pubs \in {<<>>, <<bob>>},
        removes \in {{}, {alice}, {alice, NoId}}}

MCJobs ==
    {Protect(pw, <<>>, FALSE, TRUE), Protect(raw, <<alice>>, FALSE, TRUE),
     Protect(NoCredential, <<alice, bob>>, FALSE, FALSE),
     Protect(NoCredential, <<alice, alice>>, FALSE, FALSE),
     Protect(pw, <<alice, bob>>, TRUE, FALSE), Protect(pw, <<>>, TRUE, TRUE),
     Batch(<<f, g>>, FALSE, TRUE), Batch(<<f, g>>, TRUE, FALSE), Batch(<<g, g>>, TRUE, FALSE)}
    \cup Rekeys

\* Processes differ in name only.
SymmetricProcs == Permutations(Procs)

\* With a verification of a file that only its recipient can open.
MCJobsRecipientsOnly == MCJobs \cup {Protect(NoCredential, <<alice>>, FALSE, TRUE)}
=============================================================================
