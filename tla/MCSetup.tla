------------------------------- MODULE MCSetup -------------------------------
(***************************************************************************)
(* Setup for TLC.  The operator sets up everything, twice or once and then   *)
(* starts the services, or sets up and goes on with single steps.          *)
(***************************************************************************)
EXTENDS Setup

MCCommands ==
  {<<"all", "all">>, <<"all", "start_services">>, <<"start_services">>,
   <<"all", "st_contract", "st_prime_mint", "end">>,
   <<"setup", "init", "init", "registrar", "stake_n_mint", "end">>}
=============================================================================
