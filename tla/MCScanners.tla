----------------------------- MODULE MCScanners -----------------------------
(* Fragments in which the scanners' cases begin, end and overlap.          *)
EXTENDS Scanners

MCFragments ==
    {<<"a">>, <<TwoByte>>, <<"'">>, <<"E", "'">>, <<"\\">>, <<"\"">>, <<"$">>,
     <<"$", "a", "$">>, <<"-", "-">>, <<"/">>, <<"/", "*">>, <<"*", "/">>,
     <<"\n">>, <<"\r", "\n">>, <<";">>, <<"M">>}
=============================================================================
