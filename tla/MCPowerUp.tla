------------------------------ MODULE MCPowerUp -----------------------------
(* An instance of PowerUp for TLC.  The first configuration opens a market *)
(* whose NET weight grows from 2 to 6 over two days; the second one makes  *)
(* the NET market smaller again, with other prices and a shorter term.     *)
EXTENDS PowerUp

Nothing == [current_weight_ratio |-> Unset, target_weight_ratio |-> Unset, assumed_stake_weight |-> Unset,
            target_timestamp |-> Unset, max_price |-> Unset, min_price |-> Unset]
Growing == [Nothing EXCEPT !.current_weight_ratio = 4, !.target_weight_ratio = 2, !.assumed_stake_weight = 2,
                           !.target_timestamp = 3, !.max_price = 9]
Steady  == [Nothing EXCEPT !.current_weight_ratio = 2, !.target_weight_ratio = 2, !.assumed_stake_weight = 1,
                           !.max_price = 6, !.min_price = 6]
Smaller == [Nothing EXCEPT !.current_weight_ratio = 3, !.target_weight_ratio = 2, !.target_timestamp = 5, !.min_price = 3]

MCConfigs == {[net |-> Growing, cpu |-> Steady, powerup_days |-> 2, min_powerup_fee |-> 1],
              [net |-> Smaller, cpu |-> Nothing, powerup_days |-> 1, min_powerup_fee |-> Unset],
              [net |-> Nothing, cpu |-> Nothing, powerup_days |-> Unset, min_powerup_fee |-> Unset]}
=============================================================================
