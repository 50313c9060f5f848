---------------------------- MODULE Social_proofs ----------------------------
(***************************************************************************)
(* For any number of fans, posts and handlers: the counters beside the     *)
(* rows of follows, likes and comments are the numbers of rows, and the    *)
(* profile's count of posts is off by the two known drifts and no more.    *)
(* Each lemma about a step says how its set of rows changed, by one        *)
(* element or not at all, and leaves the counting to the theorems about    *)
(* finite sets.  The second half proves what a viewer sees: at rest the    *)
(* like and follow buttons show what is stored, when nothing was lost.     *)
(***************************************************************************)
EXTENDS SocialCards, TLAPS, FiniteSetTheorems

(* A handler deletes a post that there is, or was.                         *)
Deletable == \A h \in Handlers : hpc[h] = "deleting" => posts[hpost[h]] # "none"

SocialInv == SocialTypeOK /\ Deletable /\ CountersMatch

(* One row more, one row less.                                             *)
LEMMA OneMore ==
  ASSUME NEW S, NEW U, S \subseteq U, IsFiniteSet(U), NEW x \in U
  PROVE  /\ Cardinality(S) \in Nat
         /\ x \notin S => Cardinality(S \cup {x}) = Cardinality(S) + 1
         /\ x \in S => Cardinality(S \ {x}) = Cardinality(S) - 1
  <1>1. IsFiniteSet(S)
    BY FS_Subset
  <1>2. Cardinality(S) \in Nat
    BY <1>1, FS_CardinalityType
  <1>3. x \notin S => Cardinality(S \cup {x}) = Cardinality(S) + 1
    BY <1>1, FS_AddElement
  <1>4. x \in S => Cardinality(S \ {x}) = Cardinality(S) - 1
    BY <1>1, FS_RemoveElement
  <1> QED
    BY <1>2, <1>3, <1>4

-----------------------------------------------------------------------------
LEMMA SocialInitInv == SocialInit => SocialInv
  <1> SUFFICES ASSUME SocialInit PROVE SocialInv
    OBVIOUS
  <1>1. Cardinality({}) = 0
    BY FS_EmptySet
  <1>2. SocialTypeOK /\ Deletable
    BY SocialConstants DEF SocialInit, SocialTypeOK, Deletable
  <1>3. RowsCounted
    BY <1>1 DEF SocialInit, RowsCounted
  <1>4. LivePosts = {} /\ Counting = {}
    BY DEF SocialInit, LivePosts, Counting
  <1>5. PostsAccounted
    BY <1>1, <1>4 DEF SocialInit, PostsAccounted
  <1> QED
    BY <1>2, <1>3, <1>5 DEF SocialInv, CountersMatch

LEMMA SocialTyping == SocialTypeOK /\ Deletable /\ [SocialNext]_socialVars
                        => SocialTypeOK' /\ Deletable'
<1> USE SocialConstants DEF SocialTypeOK, Deletable, HandlerTo, HandlerEnds, rowVars, counterVars
<1> SUFFICES ASSUME SocialTypeOK, Deletable, [SocialNext]_socialVars
             PROVE  SocialTypeOK' /\ Deletable'
  OBVIOUS
<1>1. ASSUME NEW f \in Fans, Follow(f) PROVE SocialTypeOK' /\ Deletable'
  BY <1>1 DEF Follow, handlerVars
<1>2. ASSUME NEW f \in Fans, Unfollow(f) PROVE SocialTypeOK' /\ Deletable'
  BY <1>2 DEF Unfollow, handlerVars
<1>3. ASSUME NEW p \in Posts, Comment(p) PROVE SocialTypeOK' /\ Deletable'
  BY <1>3 DEF Comment, handlerVars
<1>4. ASSUME NEW h \in Handlers, LikeWrite(h) PROVE SocialTypeOK' /\ Deletable'
  BY <1>4 DEF LikeWrite
<1>5. ASSUME NEW h \in Handlers, UnlikeWrite(h) PROVE SocialTypeOK' /\ Deletable'
  BY <1>5 DEF UnlikeWrite
<1>6. ASSUME NEW h \in Handlers, PostCount(h) PROVE SocialTypeOK' /\ Deletable'
  BY <1>6 DEF PostCount
<1>7. ASSUME NEW h \in Handlers, DeleteWrite(h) PROVE SocialTypeOK' /\ Deletable'
  BY <1>7 DEF DeleteWrite
<1>8. ASSUME NEW h \in Handlers, HandlerFails(h) PROVE SocialTypeOK' /\ Deletable'
  BY <1>8 DEF HandlerFails
<1>9. ASSUME NEW h \in Handlers, NEW p \in Posts, PostCreate(h, p)
      PROVE  SocialTypeOK' /\ Deletable'
  BY <1>9 DEF PostCreate
<1>10. ASSUME NEW h \in Handlers, NEW p \in Posts, DeleteRead(h, p)
       PROVE  SocialTypeOK' /\ Deletable'
  BY <1>10 DEF DeleteRead
<1>11. ASSUME NEW h \in Handlers, NEW p \in Posts, NEW f \in Fans, LikeRead(h, f, p)
       PROVE  SocialTypeOK' /\ Deletable'
  BY <1>11 DEF LikeRead
<1>12. CASE UNCHANGED socialVars
  BY <1>12 DEF socialVars, handlerVars
<1> QED
  BY <1>1, <1>2, <1>3, <1>4, <1>5, <1>6, <1>7, <1>8, <1>9, <1>10, <1>11, <1>12
     DEF SocialNext

-----------------------------------------------------------------------------
(* Steps that leave follows, likes and comments alone.                     *)
LEMMA CountsKept ==
  RowsCounted /\ UNCHANGED <<follows, followersCount, likes, likesCount, comments, commentsCount>>
    => RowsCounted'
  BY DEF RowsCounted

LEMMA RowsStep == SocialInv /\ [SocialNext]_socialVars => RowsCounted'
<1> USE SocialConstants
    DEF SocialInv, SocialTypeOK, CountersMatch, HandlerTo, HandlerEnds, rowVars, counterVars
<1> SUFFICES ASSUME SocialInv, [SocialNext]_socialVars PROVE RowsCounted'
  OBVIOUS
<1>1. ASSUME NEW f \in Fans, Follow(f) PROVE RowsCounted'
  <2>1. Cardinality(follows \cup {f}) = Cardinality(follows) + 1
    BY <1>1, OneMore DEF Follow
  <2> QED
    BY <1>1, <2>1 DEF Follow, RowsCounted
<1>2. ASSUME NEW f \in Fans, Unfollow(f) PROVE RowsCounted'
  <2>1. /\ Cardinality(follows \ {f}) = Cardinality(follows) - 1
        /\ Cardinality(follows \ {f}) \in Nat
    <3>1. follows \ {f} \subseteq Fans
      OBVIOUS
    <3> QED
      BY <1>2, <3>1, OneMore DEF Unfollow
  <2>2. followersCount = Cardinality(follows) /\ followersCount > 0
    BY <2>1 DEF RowsCounted
  <2>3. follows' = follows \ {f} /\ followersCount' = followersCount - 1
    BY <1>2, <2>2 DEF Unfollow
  <2> QED
    BY <1>2, <2>1, <2>2, <2>3 DEF Unfollow, RowsCounted
<1>3. ASSUME NEW p \in Posts, Comment(p) PROVE RowsCounted'
  BY <1>3 DEF Comment, RowsCounted
<1>4. ASSUME NEW h \in Handlers, LikeWrite(h) PROVE RowsCounted'
  <2> DEFINE f == hfan[h]
             p == hpost[h]
  <2>1. f \in Fans /\ p \in Posts
    BY <1>4 DEF LikeWrite
  <2>2. CASE f \in likes[p]
    BY <1>4, <2>2, CountsKept DEF LikeWrite
  <2>3. CASE f \notin likes[p]
    <3>1. /\ likes' = [likes EXCEPT ![p] = @ \cup {f}]
          /\ likesCount' = [likesCount EXCEPT ![p] = @ + 1]
          /\ UNCHANGED <<follows, followersCount, comments, commentsCount>>
      BY <1>4, <2>3 DEF LikeWrite
    <3>2. Cardinality(likes[p] \cup {f}) = Cardinality(likes[p]) + 1
      <4>1. likes[p] \subseteq Fans
        BY <2>1
      <4> QED
        BY <2>1, <2>3, <4>1, OneMore
    <3> QED
      BY <2>1, <3>1, <3>2 DEF RowsCounted
  <2> QED
    BY <2>2, <2>3
<1>5. ASSUME NEW h \in Handlers, UnlikeWrite(h) PROVE RowsCounted'
  <2> DEFINE f == hfan[h]
             p == hpost[h]
  <2>1. f \in Fans /\ p \in Posts
    BY <1>5 DEF UnlikeWrite
  <2>2. CASE f \notin likes[p]
    BY <1>5, <2>2, CountsKept DEF UnlikeWrite
  <2>3. CASE f \in likes[p]
    <3>1. /\ likes' = [likes EXCEPT ![p] = @ \ {f}]
          /\ likesCount' = [likesCount EXCEPT ![p] = @ - 1]
          /\ UNCHANGED <<follows, followersCount, comments, commentsCount>>
      BY <1>5, <2>3 DEF UnlikeWrite
    <3>2. Cardinality(likes[p] \ {f}) = Cardinality(likes[p]) - 1
      <4>1. likes[p] \subseteq Fans
        BY <2>1
      <4> QED
        BY <2>1, <2>3, <4>1, OneMore
    <3> QED
      BY <2>1, <3>1, <3>2 DEF RowsCounted
  <2> QED
    BY <2>2, <2>3
<1>6. ASSUME NEW h \in Handlers,
             PostCount(h) \/ DeleteWrite(h) \/ HandlerFails(h)
               \/ (\E p \in Posts :
                     \/ PostCreate(h, p) \/ DeleteRead(h, p)
                     \/ \E f \in Fans : LikeRead(h, f, p))
      PROVE  RowsCounted'
  BY <1>6, CountsKept
     DEF PostCount, DeleteWrite, HandlerFails, PostCreate, DeleteRead, LikeRead
<1>7. CASE UNCHANGED socialVars
  BY <1>7, CountsKept DEF socialVars
<1> QED
  BY <1>1, <1>2, <1>3, <1>4, <1>5, <1>6, <1>7 DEF SocialNext

-----------------------------------------------------------------------------
(* Steps that neither create, count nor delete a post.                     *)
LEMMA PostsKept ==
  PostsAccounted /\ Counting' = Counting
    /\ UNCHANGED <<posts, postsCount, uncounted, recounted>> => PostsAccounted'
  BY DEF PostsAccounted, LivePosts

LEMMA PostsStep == SocialInv /\ [SocialNext]_socialVars => PostsAccounted'
<1> USE SocialConstants
    DEF SocialInv, SocialTypeOK, CountersMatch, HandlerTo, HandlerEnds, rowVars, counterVars
<1> SUFFICES ASSUME SocialInv, [SocialNext]_socialVars PROVE PostsAccounted'
  OBVIOUS
<1>1. Counting \subseteq Handlers /\ LivePosts \subseteq Posts
  BY DEF Counting, LivePosts
<1>2. ASSUME NEW h \in Handlers, NEW p \in Posts, PostCreate(h, p) PROVE PostsAccounted'
  <2>1. Counting' = Counting \cup {h} /\ h \notin Counting
    BY <1>2 DEF PostCreate, Counting
  <2>2. LivePosts' = LivePosts \cup {p} /\ p \notin LivePosts
    BY <1>2 DEF PostCreate, LivePosts
  <2>3. Cardinality(Counting') = Cardinality(Counting) + 1 /\ Cardinality(Counting) \in Nat
    BY <1>1, <2>1, OneMore
  <2>4. Cardinality(LivePosts') = Cardinality(LivePosts) + 1 /\ Cardinality(LivePosts) \in Nat
    BY <1>1, <2>2, OneMore
  <2>5. UNCHANGED <<postsCount, uncounted, recounted>>
    BY <1>2 DEF PostCreate
  <2> QED
    BY <2>3, <2>4, <2>5 DEF PostsAccounted
<1>3. ASSUME NEW h \in Handlers, PostCount(h) PROVE PostsAccounted'
  <2>1. Counting' = Counting \ {h} /\ h \in Counting
    BY <1>3 DEF PostCount, Counting
  <2>2. Cardinality(Counting') = Cardinality(Counting) - 1 /\ Cardinality(Counting) \in Nat
    BY <1>1, <2>1, OneMore
  <2>3. LivePosts' = LivePosts /\ postsCount' = postsCount + 1 /\ UNCHANGED <<uncounted, recounted>>
    BY <1>3 DEF PostCount, LivePosts
  <2> QED
    BY <2>2, <2>3 DEF PostsAccounted
<1>4. ASSUME NEW h \in Handlers, DeleteWrite(h) PROVE PostsAccounted'
  <2> DEFINE p == hpost[h]
  <2>1. /\ p \in Posts /\ posts[p] \in {"live", "deleted"}
        /\ postsCount' = postsCount - 1 /\ uncounted' = uncounted
    BY <1>4 DEF DeleteWrite, Deletable
  <2>2. Counting' = Counting /\ Cardinality(Counting) \in Nat
    <3>1. Counting' = Counting
      BY <1>4 DEF DeleteWrite, Counting
    <3>2. Cardinality(Counting) \in Nat
      BY <1>1, OneMore
    <3> QED
      BY <3>1, <3>2
  <2>3. LivePosts' = LivePosts \ {p}
    BY <1>4 DEF DeleteWrite, LivePosts
  <2>4. CASE posts[p] = "live"
    <3>1. recounted' = recounted
      BY <1>4, <2>4 DEF DeleteWrite
    <3>2. p \in LivePosts
      BY <2>1, <2>4 DEF LivePosts
    <3>3. /\ Cardinality(LivePosts') = Cardinality(LivePosts) - 1
          /\ Cardinality(LivePosts) \in Nat
      BY <1>1, <2>1, <2>3, <3>2, OneMore
    <3> QED
      BY <2>1, <2>2, <3>1, <3>3 DEF PostsAccounted
  <2>5. CASE posts[p] = "deleted"
    <3>1. recounted' = recounted + 1
      BY <1>4, <2>5 DEF DeleteWrite
    <3>2. p \notin LivePosts
      BY <2>5 DEF LivePosts
    <3>3. LivePosts' = LivePosts
      BY <2>3, <3>2
    <3>4. Cardinality(LivePosts) \in Nat
      BY <1>1, <2>1, OneMore
    <3> QED
      BY <2>1, <2>2, <3>1, <3>3, <3>4 DEF PostsAccounted
  <2> QED
    BY <2>1, <2>4, <2>5
<1>5. ASSUME NEW h \in Handlers, HandlerFails(h) PROVE PostsAccounted'
  <2>1. LivePosts' = LivePosts /\ UNCHANGED <<postsCount, recounted>>
    BY <1>5 DEF HandlerFails, LivePosts
  <2>2. Counting' = Counting \ {h}
    BY <1>5 DEF HandlerFails, Counting
  <2>3. CASE h \in Counting
    <3>1. uncounted' = uncounted + 1
      BY <1>5, <2>3 DEF HandlerFails, Counting
    <3>2. Cardinality(Counting') = Cardinality(Counting) - 1 /\ Cardinality(Counting) \in Nat
      BY <1>1, <2>2, <2>3, OneMore
    <3> QED
      BY <2>1, <3>1, <3>2 DEF PostsAccounted
  <2>4. CASE h \notin Counting
    <3>1. uncounted' = uncounted
      BY <1>5, <2>4 DEF HandlerFails, Counting
    <3>2. Counting' = Counting
      BY <2>2, <2>4
    <3> QED
      BY <2>1, <3>1, <3>2 DEF PostsAccounted
  <2> QED
    BY <2>3, <2>4
<1>6. ASSUME NEW h \in Handlers,
             LikeWrite(h) \/ UnlikeWrite(h)
               \/ (\E p \in Posts : DeleteRead(h, p) \/ \E f \in Fans : LikeRead(h, f, p))
      PROVE  PostsAccounted'
  <2>1. /\ UNCHANGED <<posts, postsCount, uncounted, recounted>>
        /\ \E to \in {"idle", "deleting", "liking", "unliking"} : hpc' = [hpc EXCEPT ![h] = to]
        /\ hpc[h] # "counting"
    BY <1>6 DEF LikeWrite, UnlikeWrite, DeleteRead, LikeRead
  <2>2. Counting' = Counting
    BY <2>1 DEF Counting
  <2> QED
    BY <2>1, <2>2, PostsKept
<1>7. ASSUME (\E f \in Fans : Follow(f) \/ Unfollow(f)) \/ (\E p \in Posts : Comment(p))
               \/ UNCHANGED socialVars
      PROVE  PostsAccounted'
  <2>1. UNCHANGED <<posts, postsCount, hpc, uncounted, recounted>>
    BY <1>7 DEF Follow, Unfollow, Comment, socialVars, handlerVars
  <2> QED
    BY <2>1, PostsKept DEF Counting
<1> QED
  BY <1>2, <1>3, <1>4, <1>5, <1>6, <1>7 DEF SocialNext

-----------------------------------------------------------------------------
THEOREM SocialInvariant == SocialSpec => []SocialInv
<1>1. SocialInit => SocialInv
  BY SocialInitInv
<1>2. SocialInv /\ [SocialNext]_socialVars => SocialInv'
  BY SocialTyping, RowsStep, PostsStep DEF SocialInv, CountersMatch
<1> QED
  BY <1>1, <1>2, PTL DEF SocialSpec

(* The counters shown beside a profile and its posts are the rows stored,  *)
(* whatever follow, toggleLike, addComment, create and deleteOwn race: but *)
(* for the posts created and never counted, or deleted twice.              *)
THEOREM CountersAreRows == SocialSpec => []CountersMatch
<1>1. SocialInv => CountersMatch
  BY DEF SocialInv
<1> QED
  BY <1>1, SocialInvariant, PTL

-----------------------------------------------------------------------------
(* A handler of the card's, under way or answered, or another's.           *)
TapOf(h) ==
  IF h \in taps
  THEN /\ reply[h] = "none" =>
            hpc[h] \in {"liking", "unliking"} /\ hfan[h] = Viewer /\ hpost[h] = card
       /\ reply[h] # "none" => hpc[h] = "idle"
  ELSE /\ reply[h] = "none"
       /\ hpc[h] \in {"liking", "unliking"} => hfan[h] # Viewer

Tapping ==
  /\ taps # {} => card # NoPost
  /\ \A h \in Handlers : TapOf(h)

Stored == Viewer \in likes[card]

(* What one tap goes back to, or is about to show, is what is stored.      *)
TapShows(h) ==
  /\ reply[h] \in {"none", "failed"} => (wasLiked[h] <=> Stored)
  /\ reply[h] = "none" => (hpc[h] = "unliking" <=> Stored)
  /\ reply[h] = "liked" => Stored
  /\ reply[h] = "unliked" => ~Stored

OneTap ==
  lostReplies = 0 /\ ~doubled /\ card # NoPost =>
    /\ taps = {} => (shownLiked <=> Stored)
    /\ \A g, h \in taps : g = h
    /\ \A h \in taps : TapShows(h)

(* The button waits for its call, so it is never a step behind.            *)
OneFollow ==
  lostReplies = 0 =>
    /\ followCall = "none" => (shownFollowing <=> Viewer \in follows)
    /\ followCall \in {"follow", "not following"} => Viewer \notin follows
    /\ followCall \in {"unfollow", "following"} => Viewer \in follows

CardsInv == CardsTypeOK /\ Tapping /\ OneTap /\ OneFollow

LEMMA CardsAreClient == CardsTypeOK /\ CardsNext => [SocialNext]_socialVars
<1> USE CardConstants
<1> SUFFICES ASSUME CardsTypeOK, CardsNext PROVE [SocialNext]_socialVars
  OBVIOUS
<1>1. CASE OthersNext
  BY <1>1 DEF OthersNext, SocialNext
<1>2. CASE FollowServed
  BY <1>2 DEF FollowServed, SocialNext
<1>3. CASE FollowTap \/ FollowAnswered \/ FollowLost
  BY <1>3 DEF FollowTap, FollowAnswered, FollowLost
<1>4. ASSUME NEW p \in Posts, CardLoads(p) PROVE UNCHANGED socialVars
  BY <1>4 DEF CardLoads
<1>5. ASSUME NEW h \in Handlers, CardTap(h) PROVE [SocialNext]_socialVars
  BY <1>5 DEF CardTap, CardsTypeOK, SocialNext
<1>6. ASSUME NEW h \in Handlers, CardServed(h) PROVE SocialNext
  BY <1>6 DEF CardServed, SocialNext
<1>7. ASSUME NEW h \in Handlers, CardAnswered(h) \/ CardReplyLost(h) PROVE UNCHANGED socialVars
  BY <1>7 DEF CardAnswered, CardReplyLost
<1> QED
  BY <1>1, <1>2, <1>3, <1>4, <1>5, <1>6, <1>7 DEF CardsNext

LEMMA CardsStart == CardsInit => CardsInv
<1> USE SocialConstants, CardConstants
<1> SUFFICES ASSUME CardsInit PROVE CardsInv
  OBVIOUS
<1>1. CardsTypeOK
  <2>1. lostReplies \in 0..MaxLostReplies
    BY DEF CardsInit
  <2>2. wasLiked \in [Handlers -> BOOLEAN]
    BY DEF CardsInit
  <2>3. reply \in [Handlers -> {"none", "failed", "liked", "unliked"}]
    BY DEF CardsInit
  <2> QED
    BY <2>1, <2>2, <2>3 DEF CardsInit, CardsTypeOK
<1>2. Tapping
  BY DEF CardsInit, SocialInit, Tapping, TapOf
<1>3. OneTap /\ OneFollow
  BY DEF CardsInit, SocialInit, OneTap, OneFollow
<1> QED
  BY <1>1, <1>2, <1>3 DEF CardsInv

(* Handlers of others, and other fans, move neither the viewer's like nor  *)
(* the viewer's calls.                                                     *)
LEMMA OthersApart ==
  ASSUME SocialTypeOK, CardsTypeOK, Tapping, OthersNext
  PROVE  /\ \A h \in taps : hpc'[h] = hpc[h] /\ hfan'[h] = hfan[h] /\ hpost'[h] = hpost[h]
         /\ \A h \in Handlers \ taps : hpc'[h] \in {"liking", "unliking"} => hfan'[h] # Viewer
         /\ \A p \in Posts : Viewer \in likes'[p] <=> Viewer \in likes[p]
         /\ Viewer \in follows' <=> Viewer \in follows
<1> DEFINE Apart ==
      /\ \A h \in taps : hpc'[h] = hpc[h] /\ hfan'[h] = hfan[h] /\ hpost'[h] = hpost[h]
      /\ \A h \in Handlers \ taps : hpc'[h] \in {"liking", "unliking"} => hfan'[h] # Viewer
      /\ \A p \in Posts : Viewer \in likes'[p] <=> Viewer \in likes[p]
      /\ Viewer \in follows' <=> Viewer \in follows
<1> USE SocialConstants, CardConstants DEF rowVars, counterVars, handlerVars
<1>0. /\ \A h \in Handlers \ taps : hpc[h] \in {"liking", "unliking"} => hfan[h] # Viewer
      /\ taps \subseteq Handlers
  BY DEF Tapping, TapOf, CardsTypeOK
<1>1. ASSUME NEW f \in Fans \ {Viewer}, Follow(f) \/ Unfollow(f) PROVE Apart
  BY <1>0, <1>1 DEF Follow, Unfollow
<1>2. ASSUME NEW p \in Posts, Comment(p) PROVE Apart
  BY <1>0, <1>2 DEF Comment
<1>3. ASSUME NEW h \in Handlers \ taps, NEW from, NEW to, NEW f, NEW p,
             HandlerTo(h, from, to, f, p), to \in {"liking", "unliking"} => f # Viewer
      PROVE  /\ \A g \in taps : hpc'[g] = hpc[g] /\ hfan'[g] = hfan[g] /\ hpost'[g] = hpost[g]
             /\ \A g \in Handlers \ taps : hpc'[g] \in {"liking", "unliking"} => hfan'[g] # Viewer
  <2>1. \A g \in Handlers :
          IF g = h THEN hpc'[g] = to /\ hfan'[g] = f /\ hpost'[g] = p
          ELSE hpc'[g] = hpc[g] /\ hfan'[g] = hfan[g] /\ hpost'[g] = hpost[g]
    BY <1>3 DEF HandlerTo, SocialTypeOK
  <2> QED
    BY <1>0, <1>3, <2>1
<1>4. ASSUME NEW h \in Handlers \ taps, LikeWrite(h) \/ UnlikeWrite(h) PROVE Apart
  <2>1. hfan[h] # Viewer /\ hpost[h] \in Posts /\ hfan[h] \in Fans
    BY <1>0, <1>4 DEF LikeWrite, UnlikeWrite, SocialTypeOK
  <2>2. \A p \in Posts : Viewer \in likes'[p] <=> Viewer \in likes[p]
    BY <1>4, <2>1 DEF LikeWrite, UnlikeWrite, SocialTypeOK
  <2>3. HandlerTo(h, hpc[h], "idle", NoFan, NoPost) /\ follows' = follows
    BY <1>4 DEF LikeWrite, UnlikeWrite, HandlerEnds
  <2> QED
    BY <1>3, <2>2, <2>3
<1>5. ASSUME NEW h \in Handlers \ taps, PostCount(h) \/ DeleteWrite(h) \/ HandlerFails(h)
      PROVE  Apart
  <2>1. HandlerTo(h, hpc[h], "idle", NoFan, NoPost) /\ UNCHANGED <<follows, likes>>
    BY <1>5 DEF PostCount, DeleteWrite, HandlerFails, HandlerEnds
  <2> QED
    BY <1>3, <2>1
<1>6. ASSUME NEW h \in Handlers \ taps, NEW p \in Posts, PostCreate(h, p) \/ DeleteRead(h, p)
      PROVE  Apart
  <2>1. \E to \in {"counting", "deleting"} : HandlerTo(h, "idle", to, NoFan, p)
    BY <1>6 DEF PostCreate, DeleteRead
  <2>2. UNCHANGED <<follows, likes>>
    BY <1>6 DEF PostCreate, DeleteRead
  <2> QED
    BY <1>3, <2>1, <2>2
<1>7. ASSUME NEW h \in Handlers \ taps, NEW p \in Posts, NEW f \in Fans \ {Viewer},
             LikeRead(h, f, p)
      PROVE  Apart
  <2>1. \E to \in {"liking", "unliking"} : HandlerTo(h, "idle", to, f, p)
    BY <1>7 DEF LikeRead
  <2>2. UNCHANGED <<follows, likes>> /\ f # Viewer
    BY <1>7 DEF LikeRead
  <2> QED
    BY <1>3, <2>1, <2>2
<1> QED
  BY <1>1, <1>2, <1>4, <1>5, <1>6, <1>7 DEF OthersNext

LEMMA CardsOthers == SocialTypeOK /\ CardsInv /\ OthersNext => CardsInv'
<1> SUFFICES ASSUME SocialTypeOK, CardsInv, OthersNext PROVE CardsInv'
  OBVIOUS
<1>0. CardsTypeOK /\ Tapping /\ OneTap /\ OneFollow
  BY DEF CardsInv
<1>1. UNCHANGED <<card, shownLiked, taps, wasLiked, reply, shownFollowing, followCall, doubled,
                  lostReplies>>
  BY DEF OthersNext, viewerVars, cardVars, buttonVars
<1>2. /\ \A h \in taps : hpc'[h] = hpc[h] /\ hfan'[h] = hfan[h] /\ hpost'[h] = hpost[h]
      /\ \A h \in Handlers \ taps : hpc'[h] \in {"liking", "unliking"} => hfan'[h] # Viewer
      /\ \A p \in Posts : Viewer \in likes'[p] <=> Viewer \in likes[p]
      /\ Viewer \in follows' <=> Viewer \in follows
  BY <1>0, OthersApart
<1>3. CardsTypeOK'
  BY <1>0, <1>1 DEF CardsTypeOK
<1>4. Tapping'
  <2>1. ASSUME NEW h \in Handlers PROVE TapOf(h)'
    BY <1>0, <1>1, <1>2 DEF Tapping, TapOf
  <2> QED
    BY <1>0, <1>1, <2>1 DEF Tapping
<1>5. OneTap'
  <2>1. card # NoPost => (Stored' <=> Stored)
    BY <1>0, <1>1, <1>2 DEF CardsTypeOK, Stored
  <2>2. card # NoPost => \A h \in taps : TapShows(h)' <=> TapShows(h)
    BY <1>1, <1>2, <2>1 DEF TapShows
  <2> QED
    BY <1>0, <1>1, <2>1, <2>2 DEF OneTap
<1>6. OneFollow'
  BY <1>0, <1>1, <1>2 DEF OneFollow
<1> QED
  BY <1>3, <1>4, <1>5, <1>6 DEF CardsInv

LEMMA CardsTap ==
  ASSUME SocialTypeOK, CardsInv, NEW h \in Handlers, CardTap(h) PROVE CardsInv'
<1> USE SocialConstants, CardConstants
<1>0. CardsTypeOK /\ Tapping /\ OneTap /\ OneFollow
  BY DEF CardsInv
<1>1. /\ card \in Posts /\ h \notin taps /\ hpc[h] = "idle" /\ card # NoPost
      /\ taps' = taps \cup {h} /\ (shownLiked' <=> ~shownLiked)
      /\ doubled' <=> (doubled \/ taps # {})
      /\ UNCHANGED <<card, shownFollowing, followCall, lostReplies, likes, follows>>
  BY <1>0 DEF CardTap, CardsTypeOK, buttonVars, LikeRead, socialVars, rowVars
<1>2. \A g \in Handlers : wasLiked'[g] <=> IF g = h THEN shownLiked ELSE wasLiked[g]
  BY <1>0 DEF CardTap, CardsTypeOK
<1>3. /\ \A g \in Handlers : g # h =>
           reply'[g] = reply[g] /\ hpc'[g] = hpc[g] /\ hfan'[g] = hfan[g] /\ hpost'[g] = hpost[g]
      /\ \/ /\ reply'[h] = "none" /\ hfan'[h] = Viewer /\ hpost'[h] = card
            /\ hpc'[h] \in {"liking", "unliking"} /\ (hpc'[h] = "unliking" <=> Stored)
         \/ reply'[h] = "failed" /\ hpc'[h] = "idle"
  <2>1. CASE posts[card] = "live"
    <3>1. LikeRead(h, Viewer, card) /\ reply' = reply
      BY <2>1 DEF CardTap
    <3>2. reply[h] = "none"
      BY <1>0, <1>1 DEF Tapping, TapOf
    <3> QED
      BY <3>1, <3>2 DEF LikeRead, HandlerTo, SocialTypeOK, Stored
  <2>2. CASE posts[card] # "live"
    <3>1. reply' = [reply EXCEPT ![h] = "failed"] /\ UNCHANGED <<hpc, hfan, hpost>>
      BY <2>2 DEF CardTap, socialVars, handlerVars
    <3> QED
      BY <1>0, <1>1, <3>1 DEF CardsTypeOK
  <2> QED
    BY <2>1, <2>2
<1>4. CardsTypeOK'
  <2>1. reply' = reply \/ reply' = [reply EXCEPT ![h] = "failed"]
    BY DEF CardTap
  <2>2. reply' \in [Handlers -> {"none", "failed", "liked", "unliked"}]
    BY <1>0, <2>1 DEF CardsTypeOK
  <2>3. /\ wasLiked' \in [Handlers -> BOOLEAN] /\ shownLiked' \in BOOLEAN
        /\ doubled' \in BOOLEAN
    BY <1>0 DEF CardTap, CardsTypeOK
  <2> QED
    BY <1>0, <1>1, <2>2, <2>3 DEF CardsTypeOK
<1>5. Tapping'
  <2>1. ASSUME NEW g \in Handlers PROVE TapOf(g)'
    <3>1. CASE g = h
      BY <1>1, <1>3, <3>1 DEF TapOf
    <3>2. CASE g # h
      <4>1. TapOf(g) /\ (g \in taps' <=> g \in taps)
        BY <1>0, <1>1, <3>2 DEF Tapping
      <4> QED
        BY <1>1, <1>3, <3>2, <4>1 DEF TapOf
    <3> QED
      BY <3>1, <3>2
  <2> QED
    BY <1>1, <2>1 DEF Tapping
<1>6. OneTap'
  <2> SUFFICES ASSUME lostReplies' = 0, ~doubled'
               PROVE  /\ taps' # {}
                      /\ \A f, g \in taps' : f = g
                      /\ \A g \in taps' : TapShows(g)'
    BY <1>1 DEF OneTap
  <2>1. taps' = {h} /\ (shownLiked <=> Stored) /\ (Stored' <=> Stored)
    BY <1>0, <1>1 DEF OneTap, Stored
  <2>2. TapShows(h)'
    BY <1>2, <1>3, <2>1 DEF TapShows
  <2> QED
    BY <2>1, <2>2
<1>7. OneFollow'
  BY <1>0, <1>1 DEF OneFollow
<1> QED
  BY <1>4, <1>5, <1>6, <1>7 DEF CardsInv

LEMMA CardsServed ==
  ASSUME SocialTypeOK, CardsInv, NEW h \in Handlers, CardServed(h) PROVE CardsInv'
<1> USE SocialConstants, CardConstants
<1>0. CardsTypeOK /\ Tapping /\ OneTap /\ OneFollow
  BY DEF CardsInv
<1>1. /\ h \in taps /\ hpc[h] # "idle"
      /\ UNCHANGED <<card, shownLiked, taps, wasLiked, shownFollowing, followCall, doubled,
                     lostReplies, follows>>
  BY DEF CardServed, LikeWrite, UnlikeWrite, HandlerFails, buttonVars, rowVars
<1>2. /\ reply[h] = "none" /\ hfan[h] = Viewer /\ hpost[h] = card /\ card \in Posts
      /\ hpc[h] \in {"liking", "unliking"}
  BY <1>0, <1>1 DEF Tapping, TapOf, CardsTypeOK
<1>3. /\ \A g \in Handlers :
           IF g = h THEN hpc'[g] = "idle"
           ELSE hpc'[g] = hpc[g] /\ hfan'[g] = hfan[g] /\ hpost'[g] = hpost[g]
      /\ \A g \in Handlers : g # h => reply'[g] = reply[g]
  BY <1>0 DEF CardServed, LikeWrite, UnlikeWrite, HandlerFails, HandlerEnds, HandlerTo,
              SocialTypeOK, CardsTypeOK
<1>4. \/ /\ hpc[h] = "liking" /\ Stored'
         /\ reply'[h] = IF Stored THEN "failed" ELSE "liked"
      \/ /\ hpc[h] = "unliking" /\ ~Stored'
         /\ reply'[h] = IF Stored THEN "unliked" ELSE "failed"
      \/ (Stored' <=> Stored) /\ reply'[h] = "failed"
  <2>1. CASE LikeWrite(h)
    <3>1. Stored' /\ hpc[h] = "liking"
      BY <1>1, <1>2, <2>1 DEF LikeWrite, SocialTypeOK, Stored
    <3>2. hpc[h] # "unliking"
      BY <3>1
    <3>3. \/ reply' = [reply EXCEPT ![h] = IF Viewer \in likes[hpost[h]] THEN "failed" ELSE "liked"]
          \/ (reply' = [reply EXCEPT ![h] = "failed"]) /\ HandlerFails(h)
      BY <2>1, <3>2 DEF CardServed, UnlikeWrite
    <3> QED
      BY <1>0, <1>1, <1>2, <3>1, <3>3 DEF HandlerFails, rowVars, CardsTypeOK, Stored
  <2>2. CASE UnlikeWrite(h)
    <3>1. ~Stored' /\ hpc[h] = "unliking"
      BY <1>1, <1>2, <2>2 DEF UnlikeWrite, SocialTypeOK, Stored
    <3>2. hpc[h] # "liking"
      BY <3>1
    <3>3. \/ reply' = [reply EXCEPT ![h] = IF Viewer \in likes[hpost[h]] THEN "unliked" ELSE "failed"]
          \/ (reply' = [reply EXCEPT ![h] = "failed"]) /\ HandlerFails(h)
      BY <2>2, <3>2 DEF CardServed, LikeWrite
    <3> QED
      BY <1>0, <1>1, <1>2, <3>1, <3>3 DEF HandlerFails, rowVars, CardsTypeOK, Stored
  <2>3. CASE HandlerFails(h) /\ reply' = [reply EXCEPT ![h] = "failed"]
    BY <1>0, <1>1, <2>3 DEF HandlerFails, rowVars, CardsTypeOK, Stored
  <2> QED
    BY <2>1, <2>2, <2>3 DEF CardServed
<1>5. CardsTypeOK'
  <2>1. reply' \in [Handlers -> {"none", "failed", "liked", "unliked"}]
    BY <1>0 DEF CardServed, CardsTypeOK
  <2> QED
    BY <1>0, <1>1, <2>1 DEF CardsTypeOK
<1>6. Tapping'
  <2>1. ASSUME NEW g \in Handlers PROVE TapOf(g)'
    <3>1. CASE g = h
      BY <1>1, <1>3, <1>4, <3>1 DEF TapOf
    <3>2. CASE g # h
      <4>1. TapOf(g)
        BY <1>0 DEF Tapping
      <4> QED
        BY <1>1, <1>3, <3>2, <4>1 DEF TapOf
    <3> QED
      BY <3>1, <3>2
  <2> QED
    BY <1>0, <1>1, <2>1 DEF Tapping
<1>7. OneTap'
  <2> SUFFICES ASSUME lostReplies' = 0, ~doubled', card' # NoPost
               PROVE  /\ taps' # {}
                      /\ \A f, g \in taps' : f = g
                      /\ \A g \in taps' : TapShows(g)'
    BY DEF OneTap
  <2>1. TapShows(h) /\ \A f, g \in taps : f = g
    BY <1>0, <1>1 DEF OneTap
  <2>2. TapShows(h)'
    BY <1>1, <1>2, <1>4, <2>1 DEF TapShows
  <2> QED
    BY <1>1, <2>1, <2>2
<1>8. OneFollow'
  BY <1>0, <1>1 DEF OneFollow
<1> QED
  BY <1>5, <1>6, <1>7, <1>8 DEF CardsInv

LEMMA CardsOver ==
  ASSUME SocialTypeOK, CardsInv, NEW h \in Handlers, CardAnswered(h) \/ CardReplyLost(h)
  PROVE  CardsInv'
<1> USE SocialConstants, CardConstants
<1>0. CardsTypeOK /\ Tapping /\ OneTap /\ OneFollow
  BY DEF CardsInv
<1>1. /\ h \in taps /\ reply[h] # "none" /\ taps' = taps \ {h}
      /\ UNCHANGED <<card, shownFollowing, followCall, doubled, follows, likes, hpc, hfan, hpost>>
  BY DEF CardAnswered, CardReplyLost, CardTapOver, buttonVars, socialVars, rowVars, handlerVars
<1>2. /\ lostReplies' \in 0..MaxLostReplies
      /\ lostReplies' = 0 => lostReplies = 0 /\ CardAnswered(h)
  <2>1. lostReplies \in 0..MaxLostReplies
    BY <1>0 DEF CardsTypeOK
  <2>2. CASE CardAnswered(h)
    BY <2>1, <2>2 DEF CardAnswered
  <2>3. CASE CardReplyLost(h)
    BY <2>1, <2>3 DEF CardReplyLost
  <2> QED
    BY <2>2, <2>3
<1>3. \A g \in Handlers : IF g = h THEN reply'[g] = "none"
                          ELSE reply'[g] = reply[g] /\ (wasLiked'[g] <=> wasLiked[g])
  BY <1>0 DEF CardAnswered, CardReplyLost, CardTapOver, CardsTypeOK
<1>4. CardsTypeOK'
  <2>1. /\ reply' \in [Handlers -> {"none", "failed", "liked", "unliked"}]
        /\ wasLiked' \in [Handlers -> BOOLEAN] /\ shownLiked' \in BOOLEAN
    BY <1>0 DEF CardAnswered, CardReplyLost, CardTapOver, CardsTypeOK
  <2> QED
    BY <1>0, <1>1, <1>2, <2>1 DEF CardsTypeOK
<1>5. Tapping'
  <2>1. ASSUME NEW g \in Handlers PROVE TapOf(g)'
    <3>1. TapOf(g)
      BY <1>0 DEF Tapping
    <3> QED
      BY <1>1, <1>3, <3>1 DEF TapOf
  <2> QED
    BY <1>0, <1>1, <2>1 DEF Tapping
<1>6. OneTap'
  <2> SUFFICES ASSUME lostReplies' = 0, ~doubled', card' # NoPost
               PROVE  taps' = {} /\ (shownLiked' <=> Stored')
    BY DEF OneTap
  <2>1. TapShows(h) /\ (\A f, g \in taps : f = g) /\ (Stored' <=> Stored)
    BY <1>0, <1>1, <1>2 DEF OneTap, Stored
  <2>2. reply[h] \in {"failed", "liked", "unliked"}
    BY <1>0, <1>1 DEF CardsTypeOK
  <2>3. shownLiked' = IF reply[h] = "failed" THEN wasLiked[h] ELSE reply[h] = "liked"
    BY <1>2 DEF CardAnswered
  <2> QED
    BY <1>1, <2>1, <2>2, <2>3 DEF TapShows
<1>7. OneFollow'
  BY <1>0, <1>1, <1>2 DEF OneFollow
<1> QED
  BY <1>4, <1>5, <1>6, <1>7 DEF CardsInv

(* Is this one of those: a truth value.                                    *)
LEMMA TruthOf ==
  ASSUME NEW s, NEW x, NEW S, s = (x \in S)
  PROVE  s \in BOOLEAN /\ (s <=> x \in S)
<1>1. s \in BOOLEAN
  OBVIOUS
<1>2. CASE x \in S
  <2>1. s
    BY <1>2
  <2> QED
    BY <1>1, <1>2, <2>1
<1>3. CASE x \notin S
  <2>1. ~s
    BY <1>3
  <2> QED
    BY <1>1, <1>3, <2>1
<1> QED
  BY <1>2, <1>3

(* The button's own steps, and the page's, leave the card's calls alone.   *)
LEMMA CardsButton ==
  ASSUME SocialTypeOK, CardsInv,
         \/ FollowTap \/ FollowServed \/ FollowAnswered \/ FollowLost
         \/ \E p \in Posts : CardLoads(p)
  PROVE  CardsInv'
<1> USE SocialConstants, CardConstants
<1>0. CardsTypeOK /\ Tapping /\ OneTap /\ OneFollow
  BY DEF CardsInv
<1>1. /\ UNCHANGED <<taps, wasLiked, reply, doubled, likes, hpc, hfan, hpost>>
  BY DEF FollowTap, FollowServed, FollowAnswered, FollowLost, CardLoads, cardVars,
         buttonVars, socialVars, rowVars, handlerVars, Follow, Unfollow
<1>2. \/ UNCHANGED <<card, shownLiked>>
      \/ /\ card = NoPost /\ (shownLiked' <=> Stored') /\ shownLiked' \in BOOLEAN
         /\ card' \in Posts
  <2>1. ASSUME NEW p \in Posts, CardLoads(p)
        PROVE  /\ card = NoPost /\ (shownLiked' <=> Stored') /\ shownLiked' \in BOOLEAN
               /\ card' \in Posts
    <3>1. card = NoPost /\ card' = p /\ shownLiked' = (Viewer \in likes[p])
      BY <2>1 DEF CardLoads
    <3>2. shownLiked' \in BOOLEAN /\ (shownLiked' <=> Viewer \in likes[p])
      BY <3>1, TruthOf
    <3>3. likes' = likes
      BY <1>1
    <3> QED
      BY <3>1, <3>2, <3>3 DEF Stored
  <2>2. CASE FollowTap \/ FollowServed \/ FollowAnswered \/ FollowLost
    BY <2>2 DEF FollowTap, FollowServed, FollowAnswered, FollowLost, cardVars
  <2> QED
    BY <2>1, <2>2
<1>3. /\ shownFollowing' \in BOOLEAN
      /\ followCall' \in {"none", "follow", "unfollow", "following", "not following"}
  <2>1. shownFollowing \in BOOLEAN
        /\ followCall \in {"none", "follow", "unfollow", "following", "not following"}
    BY <1>0 DEF CardsTypeOK
  <2>2. CASE FollowTap
    BY <2>1, <2>2 DEF FollowTap
  <2>3. CASE FollowServed
    BY <2>1, <2>3 DEF FollowServed
  <2>4. CASE FollowAnswered
    BY <2>4 DEF FollowAnswered
  <2>5. CASE FollowLost
    <3> DEFINE Off == {"unfollow", "not following"}
    <3>1. followCall' = "none" /\ shownFollowing' = (followCall \in Off)
      BY <2>5, Zenon DEF FollowLost
    <3> HIDE DEF Off
    <3>2. shownFollowing' \in BOOLEAN
      BY <3>1, TruthOf
    <3> QED
      BY <3>1, <3>2
  <2>6. CASE \E p \in Posts : CardLoads(p)
    BY <2>1, <2>6 DEF CardLoads, buttonVars
  <2> QED
    BY <2>2, <2>3, <2>4, <2>5, <2>6
<1>8. /\ lostReplies' \in 0..MaxLostReplies
      /\ lostReplies' = 0 => lostReplies = 0 /\ ~FollowLost
  <2>1. lostReplies \in 0..MaxLostReplies
    BY <1>0 DEF CardsTypeOK
  <2>2. CASE FollowLost
    <3>1. lostReplies < MaxLostReplies /\ lostReplies' = lostReplies + 1
      BY <2>2, Zenon DEF FollowLost
    <3> QED
      BY <2>1, <2>2, <3>1
  <2>3. CASE ~FollowLost
    <3>1. lostReplies' = lostReplies
      BY <2>3 DEF FollowTap, FollowServed, FollowAnswered, CardLoads
    <3> QED
      BY <2>1, <2>3, <3>1
  <2> QED
    BY <2>2, <2>3
<1>4. CardsTypeOK'
  BY <1>0, <1>1, <1>2, <1>3, <1>8 DEF CardsTypeOK
<1>5. Tapping'
  <2>1. taps # {} => card' = card
    BY <1>0, <1>2 DEF Tapping
  <2>2. ASSUME NEW g \in Handlers PROVE TapOf(g)'
    BY <1>0, <1>1, <2>1 DEF Tapping, TapOf
  <2> QED
    BY <1>0, <1>1, <2>1, <2>2 DEF Tapping
<1>6. OneTap'
  <2> SUFFICES ASSUME lostReplies' = 0, ~doubled', card' # NoPost
               PROVE  /\ taps' = {} => (shownLiked' <=> Stored')
                      /\ \A f, g \in taps' : f = g
                      /\ \A g \in taps' : TapShows(g)'
    BY DEF OneTap
  <2>1. lostReplies = 0
    BY <1>8
  <2>2. CASE UNCHANGED <<card, shownLiked>>
    <3>1. Stored' <=> Stored
      BY <1>1, <2>2 DEF Stored
    <3>2. \A g \in taps : TapShows(g)' <=> TapShows(g)
      BY <1>1, <3>1 DEF TapShows
    <3> QED
      BY <1>0, <1>1, <2>1, <2>2, <3>1, <3>2 DEF OneTap
  <2>3. CASE card = NoPost /\ (shownLiked' <=> Stored')
    BY <1>0, <1>1, <2>3 DEF Tapping
  <2> QED
    BY <1>2, <2>2, <2>3
<1>7. OneFollow'
  <2> SUFFICES ASSUME lostReplies' = 0 PROVE OneFollow'
    BY DEF OneFollow
  <2>1. lostReplies = 0
    BY <1>8
  <2>2. CASE FollowTap
    BY <1>0, <2>1, <2>2 DEF FollowTap, OneFollow, socialVars, rowVars
  <2>3. CASE FollowServed
    BY <1>0, <2>1, <2>3 DEF FollowServed, OneFollow, Follow, Unfollow, socialVars, rowVars
  <2>4. CASE FollowAnswered
    <3>1. (shownFollowing' <=> followCall = "following") /\ followCall' = "none"
          /\ followCall \in {"following", "not following"} /\ follows' = follows
      BY <2>4 DEF FollowAnswered, socialVars, rowVars
    <3> QED
      BY <1>0, <2>1, <3>1 DEF OneFollow
  <2>5. CASE \E p \in Posts : CardLoads(p)
    <3>1. UNCHANGED <<shownFollowing, followCall, follows>>
      BY <2>5 DEF CardLoads, socialVars, rowVars, buttonVars
    <3> QED
      BY <1>0, <2>1, <3>1 DEF OneFollow
  <2> QED
    BY <1>8, <2>2, <2>3, <2>4, <2>5
<1> QED
  BY <1>4, <1>5, <1>6, <1>7 DEF CardsInv

LEMMA CardsStep ==
  SocialTypeOK /\ CardsInv /\ [CardsNext]_<<socialVars, viewerVars>> => CardsInv'
<1> SUFFICES ASSUME SocialTypeOK, CardsInv, [CardsNext]_<<socialVars, viewerVars>>
             PROVE  CardsInv'
  OBVIOUS
<1>1. CASE CardsNext
  BY <1>1, CardsOthers, CardsButton, CardsTap, CardsServed, CardsOver DEF CardsNext
<1>2. CASE UNCHANGED <<socialVars, viewerVars>>
  BY <1>2 DEF socialVars, rowVars, handlerVars, viewerVars, cardVars, buttonVars, CardsInv,
              CardsTypeOK, Tapping, TapOf, OneTap, TapShows, Stored, OneFollow
<1> QED
  BY <1>1, <1>2

LEMMA CardsInvStep ==
  SocialInv /\ CardsInv /\ [CardsNext]_<<socialVars, viewerVars>> => SocialInv' /\ CardsInv'
<1> SUFFICES ASSUME SocialInv, CardsInv, [CardsNext]_<<socialVars, viewerVars>>
             PROVE  SocialInv' /\ CardsInv'
  OBVIOUS
<1>1. [SocialNext]_socialVars
  BY CardsAreClient DEF CardsInv
<1> QED
  BY <1>1, SocialTyping, RowsStep, PostsStep, CardsStep DEF SocialInv, CountersMatch

LEMMA CardsInvInit == CardsInit => SocialInv /\ CardsInv
  BY SocialInitInv, CardsStart DEF CardsInit

LEMMA CardsInvariant == CardsSpec => [](SocialInv /\ CardsInv)
  BY CardsInvInit, CardsInvStep, PTL DEF CardsSpec

LEMMA CardsShown == CardsInv => ButtonsShowStored
<1> SUFFICES ASSUME CardsInv, lostReplies = 0
             PROVE  /\ followCall = "none" => shownFollowing = (Viewer \in follows)
                    /\ card # NoPost /\ taps = {} /\ ~doubled
                         => shownLiked = (Viewer \in likes[card])
  BY DEF ButtonsShowStored
<1>1. shownFollowing \in BOOLEAN /\ shownLiked \in BOOLEAN
  BY DEF CardsInv, CardsTypeOK
<1>2. followCall = "none" => (shownFollowing <=> Viewer \in follows)
  BY DEF CardsInv, OneFollow
<1>3. card # NoPost /\ taps = {} /\ ~doubled => (shownLiked <=> Viewer \in likes[card])
  BY DEF CardsInv, OneTap, Stored
<1> QED
  BY <1>1, <1>2, <1>3

(* At rest the like and the follow button show what is stored, however the *)
(* calls of others are served in between, if taps wait for their answers.  *)
THEOREM ButtonsAreTrue == CardsSpec => []ButtonsShowStored
  BY CardsShown, CardsInvariant, PTL

(* The viewer's page is one more client of the services: their counters    *)
(* match their rows beside it too.                                         *)
THEOREM CardsKeepCounters == CardsSpec => []CountersMatch
<1>1. SocialInv => CountersMatch
  BY DEF SocialInv
<1> QED
  BY <1>1, CardsInvariant, PTL
=============================================================================
