------------------------------- MODULE MCUsers -------------------------------
(***************************************************************************)
(* Selections of the user programs: small ones that between them start     *)
(* every program.                                                          *)
(***************************************************************************)
EXTENDS Users

Selections ==
  {<<"user_a">>, <<"user_b">>, <<"user_c">>, <<"user_d">>, <<"user_e">>, <<"user_f">>,
   <<"user_g">>, <<"user_h">>, <<"user_j">>, <<"user_k">>, <<"user_l">>, <<"user_m">>,
   <<"user_n">>, <<"user_p", "user_q">>, <<"user_r", "user_s">>, <<"user_t">>, <<"user_u">>}

\* For what is not so.
NotSo == {<<"user_t">>, <<"user_j">>, <<"user_k">>}
=============================================================================
