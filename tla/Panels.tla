------------------------------- MODULE Panels -------------------------------
(***************************************************************************)
(* A server at one call of a tool that asks a panel of providers: confer,  *)
(* debate, coordinate or pick; or at recommend_panel, which ranks them by  *)
(* their calls so far. It is dispatched by the tool's name as tools/call   *)
(* does. A server answers one call before it reads the next, so no two of  *)
(* them ever share a state; the variables are those of the tool's own      *)
(* module, in order.                                                       *)
(***************************************************************************)
EXTENDS Naturals

CONSTANTS
  Panelist,      (* the providers on the panel of confer and of pick *)
  ConferCap,     (* max_session_tokens of confer's session, 0 disables it *)
  ConferCost,    (* bound: tokens of one answer in confer *)
  Debaters,      (* how many providers debate *)
  MaxRounds,     (* max_rounds *)
  MaxClaims,     (* bound: claims of a structured synthesis *)
  SessionCap,    (* max_session_tokens of a debate's or coordinate's session *)
  AnswerCost,    (* bound: tokens of one answer; in a debate also of all lost *)
  Provider,      (* the providers registered with coordinate *)
  Allowed,       (* provider_allowlist *)
  Moderator,     (* the configured moderator *)
  NOptions,      (* how many options pick has *)
  Criterion,     (* its criteria *)
  Weight,        (* the weight of each *)
  Object,        (* the score objects that a provider answers with *)
  Sure,          (* early_stop_threshold, in tenths *)
  Ranked,        (* the providers that the router ranks *)
  Price,         (* what a call of each costs when it succeeds *)
  Tokens,        (* its tokens, in tenths of the 1500 that count as engaged *)
  Trust,         (* the scoreboard's weight of each *)
  ColdBelow,     (* _ROUTER_COLD_START_THRESHOLD *)
  Grain,         (* rounded scores and rates are multiples of 1 / Grain *)
  MaxCalls       (* bound: calls that the router has seen *)

VARIABLES
  tool,           (* the name the call was dispatched by *)
  v1, v2, v3, v4, v5, v6, v7, v8, v9, v10, v11, v12, v13, v14, v15 (* the locals of the call *)

vars == <<tool, v1, v2, v3, v4, v5, v6, v7, v8, v9, v10, v11, v12, v13, v14, v15>>

Conf == INSTANCE Confer WITH
  Provider <- Panelist, Cap <- ConferCap, MaxCost <- ConferCost,
  pc <- v1, clock <- v2, args <- v3, prior <- v4, thread <- v5, cost <- v6,
  agreed <- v7, skipped <- v8, judge <- v9, extractor <- v10, paid <- v11,
  lost <- v12, logged <- v13

Deb == INSTANCE Debate WITH
  Panel <- Debaters, MaxRounds <- MaxRounds, Cap <- SessionCap,
  MaxCost <- AnswerCost, MaxClaims <- MaxClaims,
  pc <- v1, clock <- v2, args <- v3, prior <- v4, turns <- v5, spent <- v6,
  thisRound <- v7, stopped <- v8, extras <- v9, synthesis <- v10,
  extractor <- v11, claims <- v12, paid <- v13, lost <- v14,
  logged <- v15

Coord == INSTANCE Coordinate WITH
  Provider <- Provider, Allowed <- Allowed, Moderator <- Moderator,
  Cap <- SessionCap, MaxCost <- AnswerCost,
  pc <- v1, args <- v2, prior <- v3, roles <- v4, thread <- v5,
  proposal <- v6, saw <- v7, cost <- v8, ballots <- v9, paid <- v10,
  lost <- v11, logged <- v12

Pk == INSTANCE Pick WITH
  Provider <- Panelist, NOptions <- NOptions, Criterion <- Criterion,
  Weight <- Weight, Object <- Object, Threshold <- Sure, Grain <- Grain,
  pc <- v1, early <- v2, panel <- v3, thread <- v4, object <- v5,
  tripped <- v6, stopped <- v7, answers <- v8, top <- v9

Rank == INSTANCE Router WITH
  Provider <- Ranked, Price <- Price, Tokens <- Tokens,
  Weight <- Trust, Threshold <- ColdBelow, Grain <- Grain, MaxCalls <- MaxCalls,
  logged <- v1, outside <- v2, other <- v3

ASSUME ConstantsFit ==
  /\ Conf!ConferAssumption
  /\ Deb!DebateAssumption
  /\ Coord!CoordinateAssumption
  /\ Pk!PickAssumption
  /\ Rank!RouterAssumption

-----------------------------------------------------------------------------

Unused == "unused"

Init ==
  \/ /\ tool = "confer" /\ Conf!Init
     /\ v14 = Unused /\ v15 = Unused
  \/ /\ tool = "debate" /\ Deb!Init
  \/ /\ tool = "coordinate" /\ Coord!Init
     /\ v13 = Unused /\ v14 = Unused /\ v15 = Unused
  \/ /\ tool = "pick" /\ Pk!Init
     /\ v10 = Unused /\ v11 = Unused /\ v12 = Unused /\ v13 = Unused
     /\ v14 = Unused /\ v15 = Unused
  \/ /\ tool = "recommend_panel" /\ Rank!Init
     /\ v4 = Unused /\ v5 = Unused /\ v6 = Unused /\ v7 = Unused
     /\ v8 = Unused /\ v9 = Unused /\ v10 = Unused /\ v11 = Unused
     /\ v12 = Unused /\ v13 = Unused /\ v14 = Unused /\ v15 = Unused

(* The router may be asked at any time. *)
AtRest == tool = "recommend_panel"

Next ==
  \/ /\ tool = "confer" /\ Conf!Next
     /\ UNCHANGED <<tool, v14, v15>>
  \/ /\ tool = "debate" /\ Deb!Next
     /\ UNCHANGED tool
  \/ /\ tool = "coordinate" /\ Coord!Next
     /\ UNCHANGED <<tool, v13, v14, v15>>
  \/ /\ tool = "pick" /\ Pk!Next
     /\ UNCHANGED <<tool, v10, v11, v12, v13, v14, v15>>
  \/ /\ tool = "recommend_panel" /\ Rank!Next
     /\ UNCHANGED <<tool, v4, v5, v6, v7, v8, v9, v10, v11, v12, v13, v14, v15>>
  \/ AtRest /\ UNCHANGED vars

Spec == Init /\ [][Next]_vars

-----------------------------------------------------------------------------

(* The locals have their types. *)
TypeOK ==
  /\ tool = "confer" => Conf!TypeOK
  /\ tool = "debate" => Deb!TypeOK
  /\ tool = "coordinate" => Coord!TypeOK
  /\ tool = "pick" => Pk!TypeOK
  /\ tool = "recommend_panel" => Rank!TypeOK

(* A call that ends has committed all that its answers report, whoever     *)
(* gave them, in whichever phase, round or role (_session_record), and     *)
(* what it was charged for beyond that is the charge of an error or a      *)
(* draft that was asked for again: nothing when there was neither.         *)
AnswersCommitted ==
  /\ tool = "confer" => Conf!AnswersCommitted
  /\ tool = "debate" => Deb!AnswersCommitted
  /\ tool = "coordinate" => Coord!AnswersCommitted
  /\ tool = "pick" => Pk!AnswersCommitted

(* A panelist is spared, and a debate cut short, on the agreement of clean *)
(* answers or when time ran out, and confer's judge of the agreement is    *)
(* asked below the session's cap only, counting what the call itself has   *)
(* spent (tool_confer, tool_debate, tool_pick).                            *)
EarlyStopIsAgreed ==
  /\ [](/\ tool = "confer" => Conf!WholePanelOrAgreement
        /\ tool = "debate" => Deb!ShortDebateIsAgreed
        /\ tool = "pick" => Pk!SkippedIsAgreed)
  /\ [][tool = "confer" => Conf!JudgeStep]_vars

(* Nobody moves on from a half-done round: confer never leaves a panelist  *)
(* that is being asked; only the time limit breaks off a round of a        *)
(* debate, and that is the last; ballots are those of a complete round on  *)
(* the proposal made, and no proposer is his own critic by default.        *)
RoundsWhole ==
  /\ tool = "confer" => Conf!PoolJoined
  /\ tool = "debate" => Deb!RoundsWhole
  /\ tool = "coordinate" => /\ Coord!BallotsOfWholeRound
                            /\ Coord!DefaultCriticsAreOthers

(* What is better comes first, as far as the rounding of the scores tells  *)
(* it apart: no option of pick leads one that dominates it, or one that    *)
(* was scored when it was not; no provider is recommended before one that  *)
(* dominates it; a tie goes to the earlier name. Error rates order         *)
(* providers as their failures do, and as many are recommended as were     *)
(* asked for.                                                              *)
BetterComesFirst ==
  /\ tool = "pick" => Pk!LeaderIsUndominated /\ Pk!LeaderIsScored
  /\ tool = "recommend_panel" => /\ Rank!BetterComesFirst
                                 /\ Rank!RatesFollowFailures
                                 /\ Rank!RecommendsEnough
=============================================================================
