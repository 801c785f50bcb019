----------------------------- MODULE ServerPlayer -----------------------------
(***************************************************************************)
(* The part of a Player of the field server that frames, packets and hits  *)
(* change (Contents/Player.cpp, the handlers of FieldServer.cpp), as       *)
(* operators from one record to the next.  Modules MoveView and            *)
(* FieldCombat put it into the field thread.                               *)
(*                                                                         *)
(* mAnimFrame is kept in the state Attack, the only one that looks at it.  *)
(* mHitStunFrame counts down in Stun.  Positions are left out: whether a   *)
(* packet's position is too far off is up to the environment, and then the *)
(* handler does nothing but disconnect.  ok turns FALSE when the assertion *)
(* of changeState fails.                                                   *)
(***************************************************************************)
EXTENDS Integers

CONSTANTS
  PLAYER_ATTACK_TOTAL_FRAME,   (* frames of a swing                          *)
  PLAYER_ATTACK_AWINDUP_FRAME, (* its frame that hits                        *)
  ALLOW_DELAY_FRAME,           (* frames a client may be ahead               *)
  PLAYER_HIT_STUN_FRAME,
  PLAYER_MAX_HP,
  MONSTER_ATTACK_DAMAGE

ASSUME PlayerAssumption ==
  /\ PLAYER_ATTACK_TOTAL_FRAME \in Nat /\ PLAYER_HIT_STUN_FRAME \in Nat
  /\ PLAYER_ATTACK_AWINDUP_FRAME \in 1 .. PLAYER_ATTACK_TOTAL_FRAME - 1
  /\ ALLOW_DELAY_FRAME \in 1 .. PLAYER_ATTACK_TOTAL_FRAME
  /\ PLAYER_MAX_HP \in Nat \ {0} /\ MONSTER_ATTACK_DAMAGE \in Nat \ {0}

ePlayerState == {"Idle", "Move", "Attack", "Dead", "Stun"}

Player == [mState : ePlayerState, mAnimFrame : 0 .. PLAYER_ATTACK_TOTAL_FRAME - 1,
           mHp : 0 .. PLAYER_MAX_HP, mHitStunFrame : 0 .. PLAYER_HIT_STUN_FRAME, ok : BOOLEAN]

NewPlayer == [mState |-> "Idle", mAnimFrame |-> 0, mHp |-> PLAYER_MAX_HP,
              mHitStunFrame |-> 0, ok |-> TRUE]

changeState(p, state) ==
  [p EXCEPT !.mState = state, !.mAnimFrame = 0, !.ok = @ /\ p.mState # state]

(* Fault: a player that was stunned walks on. *)
updateWalksOn(p, mBConnect) ==
  IF p.mState # "Stun" THEN p
  ELSE IF p.mHitStunFrame > 0 THEN [p EXCEPT !.mHitStunFrame = @ - 1] ELSE changeState(p, "Move")

(* One frame; a player whose connection is gone stands still. *)
update(p, mBConnect) ==
  CASE ~mBConnect -> p
    [] mBConnect /\ p.mState = "Attack" ->
         IF p.mAnimFrame + 1 >= PLAYER_ATTACK_TOTAL_FRAME
         THEN changeState(p, "Idle") ELSE [p EXCEPT !.mAnimFrame = @ + 1]
    [] mBConnect /\ p.mState = "Stun" ->
         IF p.mHitStunFrame > 0
         THEN [p EXCEPT !.mHitStunFrame = @ - 1] ELSE changeState(p, "Idle")
    [] OTHER -> p

(* fieldUpdate: the swing hits in this frame. *)
Strikes(p) == p.mState = "Attack" /\ p.mAnimFrame = PLAYER_ATTACK_AWINDUP_FRAME

(* Fault: hit points are not held at zero. *)
takeDamageBelowZero(p) ==
  [p EXCEPT !.mHp = @ - MONSTER_ATTACK_DAMAGE,
            !.mState = IF p.mHp = MONSTER_ATTACK_DAMAGE THEN "Dead" ELSE "Stun"]

(* A monster's hit. *)
takeDamage(p) ==
  LET left == IF p.mHp > MONSTER_ATTACK_DAMAGE THEN p.mHp - MONSTER_ATTACK_DAMAGE ELSE 0
      hurt == [p EXCEPT !.mHp = left]
      stunned == [hurt EXCEPT !.mHitStunFrame = PLAYER_HIT_STUN_FRAME]
  IN  CASE p.mState = "Dead" -> p
        [] p.mState # "Dead" /\ left = 0 -> changeState(hurt, "Dead")
        [] p.mState = "Stun" /\ left # 0 -> stunned
        [] p.mState \notin {"Dead", "Stun"} /\ left # 0 -> changeState(stunned, "Stun")

(* handleMoveStart: the states in which a MOVE_START is taken.  A swing may be  *)
(* given up in its last frames.                                                 *)
StartTaken(p) ==
  \/ p.mState = "Idle"
  \/ p.mState = "Attack" /\ PLAYER_ATTACK_TOTAL_FRAME - p.mAnimFrame < ALLOW_DELAY_FRAME
handleMoveStart(p) == IF StartTaken(p) THEN changeState(p, "Move") ELSE p

(* handleMoveStop *)
StopTaken(p) == p.mState \notin {"Attack", "Dead", "Stun"}
handleMoveStop(p) == IF StopTaken(p) /\ p.mState # "Idle" THEN changeState(p, "Idle") ELSE p

(* handleAttackReq *)
AttackTaken(p) == p.mState \notin {"Dead", "Attack", "Stun"}
handleAttackReq(p) == IF AttackTaken(p) THEN changeState(p, "Attack") ELSE p
=============================================================================
