------------------------------ MODULE MCHidControl ------------------------------
(***************************************************************************)
(* An earlier run of the driver waits for each answer before it sends the  *)
(* next command, but for that to the OS code: what it can leave in the     *)
(* camera when it ends is one command, or the OS code and one more.        *)
(***************************************************************************)
EXTENDS HidControl

MCLeftovers == {<<>>, <<"os">>, <<"os", "exposure">>, <<"exposure">>, <<"set_mode">>,
                <<"get_mode">>}

================================================================================
