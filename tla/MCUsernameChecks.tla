------------------------- MODULE MCUsernameChecks -------------------------
(***************************************************************************)
(* Three sites that can be checked, the second of which has one code for   *)
(* both cases as 166 entries of the vendored dataset do, a fourth beyond   *)
(* max_sites, and entries that cannot be used.                             *)
(***************************************************************************)
EXTENDS UsernameChecks

Raw(post, account, e, m, strings) ==
    [post_body |-> post, account |-> account, e_code |-> e, m_code |-> m, strings |-> strings]

MCDataset ==
    << Raw(None, TRUE, 200, 404, TRUE), Raw("body", TRUE, 200, 404, TRUE),
       Raw(None, FALSE, 200, 404, TRUE), Raw(None, TRUE, 200, 200, TRUE),
       Raw(None, TRUE, Junk, 404, TRUE), Raw(None, TRUE, 200, 404, FALSE),
       Raw(None, TRUE, 200, 404, TRUE), Raw(None, TRUE, 200, 302, TRUE) >>

Answer(code, expected, missing) == [code |-> code, expected |-> expected, missing |-> missing]

MCResponses ==
    { Answer(200, TRUE, FALSE), Answer(200, TRUE, TRUE), Answer(200, FALSE, FALSE),
      Answer(404, FALSE, TRUE), Answer(429, TRUE, FALSE) }
=============================================================================
