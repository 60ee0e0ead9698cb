---------------------------- MODULE MCBlockTools ----------------------------
(***************************************************************************)
(* Small instances of what the miner and the tests make blocks, messages,  *)
(* signatures and connections with: each behaviour takes one of the parts, *)
(* which share no state.                                                   *)
(***************************************************************************)
EXTENDS MessageRelay, SignetBlock, Script, Sighash, Keys, PacketCipher, MiniWallet, CompactTarget

VARIABLE part

vars == <<part, msg, blockvars, items, script, sigvars, key, ciphervars, walletvars, calib>>

Init ==
  /\ part \in {"relay", "block", "script", "sighash", "keys", "cipher", "wallet", "target"}
  /\ RelayInit /\ BlockInit /\ ScriptInit /\ SighashInit /\ KeysInit /\ CipherInit /\ WalletInit /\ CalibInit

Relay ==
  /\ part = "relay" /\ RelayNext
  /\ UNCHANGED <<part, blockvars, items, script, sigvars, key, ciphervars, walletvars, calib>>
Blocks ==
  /\ part = "block" /\ BlockNext
  /\ UNCHANGED <<part, msg, items, script, sigvars, key, ciphervars, walletvars, calib>>
Scripts ==
  /\ part = "script" /\ ScriptNext
  /\ UNCHANGED <<part, msg, blockvars, sigvars, key, ciphervars, walletvars, calib>>
Signing ==
  /\ part = "sighash" /\ SighashNext
  /\ UNCHANGED <<part, msg, blockvars, items, script, key, ciphervars, walletvars, calib>>
KeyPairs ==
  /\ part = "keys" /\ KeysNext
  /\ UNCHANGED <<part, msg, blockvars, items, script, sigvars, ciphervars, walletvars, calib>>
Packets ==
  /\ part = "cipher" /\ CipherNext
  /\ UNCHANGED <<part, msg, blockvars, items, script, sigvars, key, walletvars, calib>>
Wallet ==
  /\ part = "wallet" /\ WalletNext
  /\ UNCHANGED <<part, msg, blockvars, items, script, sigvars, key, ciphervars, calib>>
Targets ==
  /\ part = "target" /\ CalibNext
  /\ UNCHANGED <<part, msg, blockvars, items, script, sigvars, key, ciphervars, walletvars>>

Next == Relay \/ Blocks \/ Scripts \/ Signing \/ KeyPairs \/ Packets \/ Wallet \/ Targets

Spec == Init /\ [][Next]_vars
=============================================================================
