SPECIFICATION MCSpec
CONSTANTS
    Owner = owner
    Workers = {w1, w2}
    Threads = {owner, w1, w2}
    LoopThread = loopThread
    relinquish = relinquish
    stop = stop
    Posts = {relinquish, stop, p1, f1}
    StopPosts = {stop}
    DestroyPosts <- DgramDestroyPosts
    FuturePosts = {f1}
    PollMayFail = TRUE
    Backlog = 2
CHECK_DEADLOCK FALSE
INVARIANTS PostsInOrder NothingOutlivesHandle
PROPERTIES PostedStopEndsRun DestroyReturnsOrWaits
