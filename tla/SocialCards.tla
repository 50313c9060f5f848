---------------------------- MODULE SocialCards -----------------------------
(***************************************************************************)
(* What one signed-in viewer's page shows of Social: a PostCard, whose     *)
(* like flips before the server has answered and may be tapped again       *)
(* meanwhile, and a FollowButton, which is disabled while it waits.  Both  *)
(* go back to what they showed when the call fails or its answer is lost.  *)
(***************************************************************************)
EXTENDS Social

CONSTANTS Viewer, MaxLostReplies

ASSUME CardConstants == Viewer \in Fans /\ MaxLostReplies \in Nat

VARIABLES
  card,           \* the post shown, or NoPost before the page has loaded
  shownLiked,     \* liked
  taps,           \* handlers of the card's calls under way
  wasLiked,       \* ... and what each goes back to
  reply,          \* ... and its answer, once the server has one
  shownFollowing, \* isFollowing
  followCall,     \* the button's call: "none" unless busy
  doubled,        \* history: the card was tapped while a call was under way
  lostReplies

cardVars     == <<card, shownLiked, taps, wasLiked, reply>>
buttonVars   == <<shownFollowing, followCall>>
viewerVars   == <<cardVars, buttonVars, doubled, lostReplies>>

-----------------------------------------------------------------------------
CardsInit ==
  /\ SocialInit
  /\ card = NoPost /\ shownLiked = FALSE
  /\ taps = {} /\ doubled = FALSE /\ lostReplies = 0
  /\ wasLiked = [h \in Handlers |-> FALSE]
  /\ reply = [h \in Handlers |-> "none"]
  /\ shownFollowing = FALSE /\ followCall = "none"

(* The feed's answer has the post, and whether its reader likes it.        *)
CardLoads(p) ==
  /\ card = NoPost /\ posts[p] = "live"
  /\ card' = p /\ shownLiked' = (Viewer \in likes[p])
  /\ UNCHANGED <<socialVars, taps, wasLiked, reply, buttonVars, doubled, lostReplies>>

(* The optimistic flip, and the call; of a deleted post it is a 404.       *)
CardTap(h) ==
  /\ card # NoPost /\ h \notin taps /\ hpc[h] = "idle"
  /\ taps' = taps \cup {h}
  /\ wasLiked' = [wasLiked EXCEPT ![h] = shownLiked]
  /\ shownLiked' = ~shownLiked
  /\ doubled' = (doubled \/ taps # {})
  /\ IF posts[card] = "live" THEN LikeRead(h, Viewer, card) /\ reply' = reply
     ELSE reply' = [reply EXCEPT ![h] = "failed"] /\ UNCHANGED socialVars
  /\ UNCHANGED <<card, buttonVars, lostReplies>>

CardServed(h) ==
  /\ h \in taps
  /\ \/ LikeWrite(h)
        /\ reply' = [reply EXCEPT ![h] = IF Viewer \in likes[hpost[h]] THEN "failed" ELSE "liked"]
     \/ UnlikeWrite(h)
        /\ reply' = [reply EXCEPT ![h] = IF Viewer \in likes[hpost[h]] THEN "unliked" ELSE "failed"]
     \/ HandlerFails(h) /\ reply' = [reply EXCEPT ![h] = "failed"]
  /\ UNCHANGED <<card, shownLiked, taps, wasLiked, buttonVars, doubled, lostReplies>>

CardTapOver(h) ==
  /\ h \in taps /\ reply[h] # "none"
  /\ taps' = taps \ {h}
  /\ reply' = [reply EXCEPT ![h] = "none"]
  /\ wasLiked' = [wasLiked EXCEPT ![h] = FALSE]

(* Mutant: a call that failed leaves the flip as it is.                    *)
CardKeepsFlip(h) ==
  /\ CardTapOver(h)
  /\ shownLiked' = IF reply[h] = "failed" THEN shownLiked ELSE reply[h] = "liked"
  /\ UNCHANGED <<socialVars, card, buttonVars, doubled, lostReplies>>

(* What the server says is shown, and after a failure what was shown.      *)
CardAnswered(h) ==
  /\ CardTapOver(h)
  /\ shownLiked' = IF reply[h] = "failed" THEN wasLiked[h] ELSE reply[h] = "liked"
  /\ UNCHANGED <<socialVars, card, buttonVars, doubled, lostReplies>>

CardReplyLost(h) ==
  /\ CardTapOver(h) /\ lostReplies < MaxLostReplies
  /\ shownLiked' = wasLiked[h]
  /\ lostReplies' = lostReplies + 1
  /\ UNCHANGED <<socialVars, card, buttonVars, doubled>>

-----------------------------------------------------------------------------
FollowTap ==
  /\ followCall = "none"
  /\ followCall' = IF shownFollowing THEN "unfollow" ELSE "follow"
  /\ shownFollowing' = ~shownFollowing
  /\ UNCHANGED <<socialVars, cardVars, doubled, lostReplies>>

(* Both calls answer alike when there is nothing left to do.               *)
FollowServed ==
  /\ \/ /\ followCall = "follow" /\ followCall' = "following"
        /\ IF Viewer \in follows THEN UNCHANGED socialVars ELSE Follow(Viewer)
     \/ /\ followCall = "unfollow" /\ followCall' = "not following"
        /\ IF Viewer \in follows THEN Unfollow(Viewer) ELSE UNCHANGED socialVars
  /\ UNCHANGED <<cardVars, shownFollowing, doubled, lostReplies>>

FollowAnswered ==
  /\ followCall \in {"following", "not following"}
  /\ shownFollowing' = (followCall = "following")
  /\ followCall' = "none"
  /\ UNCHANGED <<socialVars, cardVars, doubled, lostReplies>>

(* The call fails before or after it was served: the button is put back.   *)
FollowLost ==
  /\ followCall # "none" /\ lostReplies < MaxLostReplies
  /\ shownFollowing' = (followCall \in {"unfollow", "not following"})
  /\ followCall' = "none"
  /\ lostReplies' = lostReplies + 1
  /\ UNCHANGED <<socialVars, cardVars, doubled>>

-----------------------------------------------------------------------------
(* Everybody else, and the profile's owner.                                *)
OthersNext ==
  /\ \/ \E f \in Fans \ {Viewer} : Follow(f) \/ Unfollow(f)
     \/ \E p \in Posts : Comment(p)
     \/ \E h \in Handlers \ taps :
          \/ LikeWrite(h) \/ UnlikeWrite(h) \/ PostCount(h) \/ DeleteWrite(h) \/ HandlerFails(h)
          \/ \E p \in Posts :
               \/ PostCreate(h, p) \/ DeleteRead(h, p)
               \/ \E f \in Fans \ {Viewer} : LikeRead(h, f, p)
  /\ UNCHANGED viewerVars

CardsNext ==
  \/ OthersNext
  \/ FollowTap \/ FollowServed \/ FollowAnswered \/ FollowLost
  \/ \E p \in Posts : CardLoads(p)
  \/ \E h \in Handlers : CardTap(h) \/ CardServed(h) \/ CardAnswered(h) \/ CardReplyLost(h)

CardsSpec == CardsInit /\ [][CardsNext]_<<socialVars, viewerVars>>

-----------------------------------------------------------------------------
CardsTypeOK ==
  /\ card \in Posts \cup {NoPost} /\ shownLiked \in BOOLEAN /\ shownFollowing \in BOOLEAN
  /\ taps \subseteq Handlers /\ wasLiked \in [Handlers -> BOOLEAN]
  /\ reply \in [Handlers -> {"none", "failed", "liked", "unliked"}]
  /\ followCall \in {"none", "follow", "unfollow", "following", "not following"}
  /\ doubled \in BOOLEAN /\ lostReplies \in 0..MaxLostReplies

(* "Optimistic toggle with rollback on error": at rest, like and follow    *)
(* are shown as they are stored, whatever failed, unless an answer of the  *)
(* viewer's was lost, or (the like only) a tap did not wait for the last.  *)
ButtonsShowStored ==
  lostReplies = 0 =>
    /\ followCall = "none" => shownFollowing = (Viewer \in follows)
    /\ card # NoPost /\ taps = {} /\ ~doubled => shownLiked = (Viewer \in likes[card])
=============================================================================
