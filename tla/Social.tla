------------------------------- MODULE Social -------------------------------
(***************************************************************************)
(* FollowersService and PostsService over one business profile: rows of    *)
(* follows, posts, likes and comments, and the counters kept beside them.  *)
(* follow and unfollow are one transaction each; toggleLike, create and    *)
(* deleteOwn read, then write in a transaction of their own, and create    *)
(* writes the row and the counter with none.                               *)
(***************************************************************************)
EXTENDS Integers, FiniteSets

CONSTANTS
  Fans,         \* signed-in users but the profile's owner
  Posts,        \* ids a post can get
  Handlers,     \* handlers of toggleLike, create and deleteOwn
  NoFan, NoPost,
  MaxComments, MaxSocialFaults   \* bounds, see the README

ASSUME SocialConstants ==
  /\ NoFan \notin Fans /\ NoPost \notin Posts
  /\ IsFiniteSet(Fans) /\ IsFiniteSet(Posts) /\ IsFiniteSet(Handlers)
  /\ {MaxComments, MaxSocialFaults} \subseteq Nat

VARIABLES
  follows, followersCount,      \* the followers rows, and the profile's column
  posts, postsCount,            \* "none", "live" or "deleted" (soft)
  likes, likesCount,            \* of each post
  comments, commentsCount,
  hpc, hfan, hpost,             \* each handler: step, user, post
  uncounted,                    \* history: posts whose creator never counted them
  recounted,                    \* history: deletions of a post deleted already
  socialFaults

rowVars     == <<follows, posts, likes, comments>>
counterVars == <<followersCount, postsCount, likesCount, commentsCount>>
handlerVars == <<hpc, hfan, hpost>>
socialVars  == <<rowVars, counterVars, handlerVars, uncounted, recounted, socialFaults>>

-----------------------------------------------------------------------------
SocialInit ==
  /\ follows = {} /\ followersCount = 0
  /\ posts = [p \in Posts |-> "none"] /\ postsCount = 0
  /\ likes = [p \in Posts |-> {}] /\ likesCount = [p \in Posts |-> 0]
  /\ comments = [p \in Posts |-> 0] /\ commentsCount = [p \in Posts |-> 0]
  /\ hpc = [h \in Handlers |-> "idle"]
  /\ hfan = [h \in Handlers |-> NoFan] /\ hpost = [h \in Handlers |-> NoPost]
  /\ uncounted = 0 /\ recounted = 0 /\ socialFaults = 0

HandlerTo(h, from, to, f, p) ==
  /\ hpc[h] = from
  /\ hpc' = [hpc EXCEPT ![h] = to]
  /\ hfan' = [hfan EXCEPT ![h] = f]
  /\ hpost' = [hpost EXCEPT ![h] = p]

HandlerEnds(h, from) == HandlerTo(h, from, "idle", NoFan, NoPost)

-----------------------------------------------------------------------------
(* Row and count in one transaction; a row that exists already is a P2002, *)
(* answered as it stands.                                                  *)
Follow(f) ==
  /\ f \notin follows
  /\ follows' = follows \cup {f}
  /\ followersCount' = followersCount + 1
  /\ UNCHANGED <<posts, likes, comments, postsCount, likesCount, commentsCount,
                 handlerVars, uncounted, recounted, socialFaults>>

(* Mutant: the count goes down whether or not a row went.                  *)
UnfollowBlindly(f) ==
  /\ follows' = follows \ {f}
  /\ followersCount' = followersCount - 1
  /\ UNCHANGED <<posts, likes, comments, postsCount, likesCount, commentsCount,
                 handlerVars, uncounted, recounted, socialFaults>>

(* deleteMany says how many rows went; with none the count stays.          *)
Unfollow(f) ==
  /\ f \in follows
  /\ follows' = follows \ {f}
  /\ followersCount' = IF followersCount > 0 THEN followersCount - 1 ELSE 0
  /\ UNCHANGED <<posts, likes, comments, postsCount, likesCount, commentsCount,
                 handlerVars, uncounted, recounted, socialFaults>>

-----------------------------------------------------------------------------
(* toggleLike reads the post, and whether its user likes it ...            *)
LikeRead(h, f, p) ==
  /\ posts[p] = "live"
  /\ HandlerTo(h, "idle", IF f \in likes[p] THEN "unliking" ELSE "liking", f, p)
  /\ UNCHANGED <<rowVars, counterVars, uncounted, recounted, socialFaults>>

(* ... inserts the row and counts it, both undone by the unique index ...  *)
LikeWrite(h) ==
  LET f == hfan[h]  p == hpost[h] IN
  /\ hpc[h] = "liking"
  /\ IF f \in likes[p] THEN UNCHANGED <<likes, likesCount>>
     ELSE /\ likes' = [likes EXCEPT ![p] = @ \cup {f}]
          /\ likesCount' = [likesCount EXCEPT ![p] = @ + 1]
  /\ HandlerEnds(h, "liking")
  /\ UNCHANGED <<follows, posts, comments, followersCount, postsCount, commentsCount,
                 uncounted, recounted, socialFaults>>

(* Mutant: deleteMany, which finds no fault with a row gone already.       *)
UnlikeMany(h) ==
  LET f == hfan[h]  p == hpost[h] IN
  /\ hpc[h] = "unliking"
  /\ likes' = [likes EXCEPT ![p] = @ \ {f}]
  /\ likesCount' = [likesCount EXCEPT ![p] = @ - 1]
  /\ HandlerEnds(h, "unliking")
  /\ UNCHANGED <<follows, posts, comments, followersCount, postsCount, commentsCount,
                 uncounted, recounted, socialFaults>>

(* ... or deletes the row, undone with its count if the row is gone.       *)
UnlikeWrite(h) ==
  LET f == hfan[h]  p == hpost[h] IN
  /\ hpc[h] = "unliking"
  /\ IF f \notin likes[p] THEN UNCHANGED <<likes, likesCount>>
     ELSE /\ likes' = [likes EXCEPT ![p] = @ \ {f}]
          /\ likesCount' = [likesCount EXCEPT ![p] = @ - 1]
  /\ HandlerEnds(h, "unliking")
  /\ UNCHANGED <<follows, posts, comments, followersCount, postsCount, commentsCount,
                 uncounted, recounted, socialFaults>>

(* addComment, on a post that may be deleted by the time it is written.    *)
Comment(p) ==
  /\ posts[p] # "none" /\ comments[p] < MaxComments
  /\ comments' = [comments EXCEPT ![p] = @ + 1]
  /\ commentsCount' = [commentsCount EXCEPT ![p] = @ + 1]
  /\ UNCHANGED <<follows, posts, likes, followersCount, postsCount, likesCount,
                 handlerVars, uncounted, recounted, socialFaults>>

-----------------------------------------------------------------------------
(* create: the row, which anyone can see from then on; then the count.     *)
PostCreate(h, p) ==
  /\ posts[p] = "none"
  /\ posts' = [posts EXCEPT ![p] = "live"]
  /\ HandlerTo(h, "idle", "counting", NoFan, p)
  /\ UNCHANGED <<follows, likes, comments, counterVars, uncounted, recounted, socialFaults>>

PostCount(h) ==
  /\ hpc[h] = "counting"
  /\ postsCount' = postsCount + 1
  /\ HandlerEnds(h, "counting")
  /\ UNCHANGED <<rowVars, followersCount, likesCount, commentsCount,
                 uncounted, recounted, socialFaults>>

DeleteRead(h, p) ==
  /\ posts[p] = "live"
  /\ HandlerTo(h, "idle", "deleting", NoFan, p)
  /\ UNCHANGED <<rowVars, counterVars, uncounted, recounted, socialFaults>>

(* deleteOwn writes deletedAt and the count without a second look.         *)
DeleteWrite(h) ==
  LET p == hpost[h] IN
  /\ hpc[h] = "deleting"
  /\ posts' = [posts EXCEPT ![p] = "deleted"]
  /\ postsCount' = postsCount - 1
  /\ recounted' = IF posts[p] = "deleted" THEN recounted + 1 ELSE recounted
  /\ HandlerEnds(h, "deleting")
  /\ UNCHANGED <<follows, likes, comments, followersCount, likesCount, commentsCount,
                 uncounted, socialFaults>>

(* A handler dies, or its next statement fails.                            *)
HandlerFails(h) ==
  /\ hpc[h] # "idle" /\ socialFaults < MaxSocialFaults
  /\ socialFaults' = socialFaults + 1
  /\ uncounted' = IF hpc[h] = "counting" THEN uncounted + 1 ELSE uncounted
  /\ HandlerEnds(h, hpc[h])
  /\ UNCHANGED <<rowVars, counterVars, recounted>>

SocialNext ==
  \/ \E f \in Fans : Follow(f) \/ Unfollow(f)
  \/ \E p \in Posts : Comment(p)
  \/ \E h \in Handlers :
       \/ LikeWrite(h) \/ UnlikeWrite(h) \/ PostCount(h) \/ DeleteWrite(h) \/ HandlerFails(h)
       \/ \E p \in Posts :
            \/ PostCreate(h, p) \/ DeleteRead(h, p)
            \/ \E f \in Fans : LikeRead(h, f, p)

SocialSpec == SocialInit /\ [][SocialNext]_socialVars

-----------------------------------------------------------------------------
SocialTypeOK ==
  /\ follows \subseteq Fans /\ followersCount \in Nat
  /\ posts \in [Posts -> {"none", "live", "deleted"}] /\ postsCount \in Int
  /\ likes \in [Posts -> SUBSET Fans] /\ likesCount \in [Posts -> Int]
  /\ comments \in [Posts -> Nat] /\ commentsCount \in [Posts -> Nat]
  /\ hpc \in [Handlers -> {"idle", "liking", "unliking", "counting", "deleting"}]
  /\ hfan \in [Handlers -> Fans \cup {NoFan}]
  /\ hpost \in [Handlers -> Posts \cup {NoPost}]
  /\ \A h \in Handlers :
       /\ hpc[h] # "idle" => hpost[h] \in Posts
       /\ hpc[h] \in {"liking", "unliking"} => hfan[h] \in Fans
  /\ uncounted \in Nat /\ recounted \in Nat /\ socialFaults \in Nat

(* Double taps and toggles from two devices leave followers, likes and     *)
(* comments counted as they are stored, and never below zero.              *)
RowsCounted ==
  /\ followersCount = Cardinality(follows)
  /\ \A p \in Posts :
       likesCount[p] = Cardinality(likes[p]) /\ commentsCount[p] = comments[p]

LivePosts == {p \in Posts : posts[p] = "live"}
Counting  == {h \in Handlers : hpc[h] = "counting"}

(* The profile's count of posts drifts in two ways only: a creator that    *)
(* dies before it counts, and a post deleted twice at once.                *)
PostsAccounted ==
  postsCount + Cardinality(Counting) + uncounted + recounted = Cardinality(LivePosts)

(* What a profile and its posts show beside them is what is stored.        *)
CountersMatch == RowsCounted /\ PostsAccounted
=============================================================================
