------------------------ MODULE SessionControlProofs ------------------------
(***************************************************************************)
(* Theorems about the control side of the session: the shutdown, the       *)
(* render device and its reopening, and the wish to play, for every set of *)
(* devices and layouts and every bound of the model.                       *)
(***************************************************************************)
EXTENDS PlaybackSession, TLAPS

ReopenPlaces == {"idle", "wait", "lock", "close", "check", "open", "refresh", "failed", "exited"}

\* What close() has brought about at each of its places: no selection is under
\* way while it runs, and once it holds the stream mutex the recovery thread is
\* gone and nothing is published.  A callback still inside a pipeline then holds
\* one that was withdrawn.
ShutdownInv ==
  /\ reopen \in [Actors -> ReopenPlaces]
  /\ decoderReady \in BOOLEAN
  /\ shuttingDown \in BOOLEAN
  /\ shuttingDown <=> closing # "open"
  /\ closing # "open" => reopen["select"] = "idle"
  /\ closing \in {"stream", "closed"} => reopen["recovery"] = "exited" /\ pipeline = None
  /\ closing \in {"stream", "closed"} /\ rpc = "pop" => rdetached # <<>>
  /\ closing = "closed" => rpc = "idle" /\ stream = "none"

\* Reopenings exclude each other, there is no stream between its closing and the
\* opening of the next, and a configuration copied by the recovery thread is
\* still the selected one unless a selection is waiting for its turn.
DeviceInv ==
  /\ ~(Reopening("select") /\ Reopening("recovery"))
  /\ \A a \in Actors : reopen[a] \in {"check", "open"} => stream = "none"
  /\ reopen["select"] \in {"idle", "refresh"} /\ stream = "running"
       => streamDevice = selectedDevice
  /\ reopen["select"] = "open" => openDevice = selectedDevice
  /\ reopen["select"] = "idle" /\ reopen["recovery"] = "open" => openDevice = selectedDevice

\* Nobody wishes to play while no source is loaded: then pause() and play() show
\* "idle" and "error", and load() sets both the wish and the status.
IntentInv ==
  /\ generation \in Nat
  /\ intent => generation # 0
  /\ IntentIsVisible

\* The types of the device, the threads that reopen it and close().
DeviceTypes ==
  /\ selectedDevice \in Devices
  /\ status \in {"idle", "loading", "playing", "paused", "error"}
  /\ stream \in {"none", "running", "faulted"}
  /\ streamDevice \in Devices /\ openDevice \in Devices \cup {None}
  /\ \A a \in Actors : reopen[a] = "open" => openDevice \in Devices
  /\ reopen \in [Actors -> ReopenPlaces]
  /\ reopen["select"] \in {"idle", "lock", "close", "check", "open", "refresh"}
  /\ reopen["recovery"] \in {"wait", "lock", "close", "check", "open", "refresh", "failed",
                             "exited"}
  /\ closing \in {"open", "decoder", "recovery", "stream", "closed"}

\* The flags.
FlagTypes ==
  /\ deviceLost \in BOOLEAN /\ intent \in BOOLEAN /\ decoderReady \in BOOLEAN
  /\ reachedEnd \in BOOLEAN /\ told \in BOOLEAN /\ recoveryRequested \in BOOLEAN
  /\ shuttingDown \in BOOLEAN

ControlInv == ShutdownInv /\ DeviceInv /\ IntentInv /\ DeviceTypes /\ FlagTypes

-----------------------------------------------------------------------------
\* The control invariant holds initially.
LEMMA ControlInit == Init => ControlInv
<1> SUFFICES ASSUME Init PROVE ControlInv
  OBVIOUS
<1>1. reopen \in [Actors -> ReopenPlaces]
  BY DEF Init, Actors, ReopenPlaces
<1>2. reopen["select"] = "idle" /\ reopen["recovery"] = "wait"
  BY DEF Init
<1>3. ShutdownInv
  BY <1>1, <1>2 DEF Init, ShutdownInv
<1>4. DeviceInv
  BY <1>2 DEF Init, DeviceInv, Actors, Reopening
<1>5. IntentInv
  BY DEF Init, IntentInv, IntentIsVisible
<1>6. DeviceTypes
  BY <1>1, <1>2, SessionAssumption DEF Init, DeviceTypes, Actors
<1>7. FlagTypes
  BY DEF Init, FlagTypes
<1>8. QED BY <1>3, <1>4, <1>5, <1>6, <1>7 DEF ControlInv

\* No step disturbs the order of the shutdown: close() takes the command mutex
\* only when no selection is under way, joins the recovery thread before it
\* withdraws the pipeline, and waits for the callback before it returns.
LEMMA ShutdownInvStep ==
  ASSUME ShutdownInv, [Next]_vars
  PROVE  ShutdownInv'
<1> USE DEF ShutdownInv, ReopenPlaces, Actors
<1> USE DEF request, report, progress, callback, source, worker, endpoint, recovery, lifecycle,
           application, sound, control
<1>1. CASE Load
  BY <1>1 DEF Load, CommandMutexFree
<1>2. CASE Play
  BY <1>2 DEF Play
<1>3. CASE Pause
  BY <1>3 DEF Pause
<1>4. ASSUME NEW p \in Targets, SeekTo(p) PROVE ShutdownInv'
  BY <1>4 DEF SeekTo, CommandMutexFree
<1>5. ASSUME NEW d \in Devices, SelectOutputDevice(d) PROVE ShutdownInv'
  BY <1>5 DEF SelectOutputDevice, CommandMutexFree
<1>6. ASSUME NEW l \in Layouts, RenderEnter(l) PROVE ShutdownInv'
  BY <1>6 DEF RenderEnter
<1>7. CASE RenderPop
  BY <1>7 DEF RenderPop
<1>8. ASSUME NEW locked \in BOOLEAN, RenderFinish(locked) PROVE ShutdownInv'
  BY <1>8 DEF RenderFinish, ReportBlock, MayReport
<1>9. CASE StreamFault
  BY <1>9 DEF StreamFault
<1>10. CASE DecodeWake
  BY <1>10 DEF DecodeWake
<1>11. CASE DecodeLeave
  BY <1>11 DEF DecodeLeave
<1>12. CASE DecodeCheck
  BY <1>12 DEF DecodeCheck
<1>13. CASE DecodeOpen
  BY <1>13 DEF DecodeOpen
<1>14. CASE DecodeSeek
  BY <1>14 DEF DecodeSeek
<1>15. CASE DecodeRead
  BY <1>15 DEF DecodeRead
<1>16. CASE DecodeFailed
  BY <1>16 DEF DecodeFailed, SourceError
<1>17. CASE DecodePublishOpened
  BY <1>17 DEF DecodePublishOpened, PublishPipeline, CommandIsCurrent
<1>18. CASE DecodeReady
  BY <1>18 DEF DecodeReady, CommandIsCurrent
<1>19. CASE DecodePublishSought
  BY <1>19 DEF DecodePublishSought, PublishPipeline, CommandIsCurrent
<1>20. CASE DecodeSought
  BY <1>20 DEF DecodeSought
<1>21. CASE DecodePush
  BY <1>21 DEF DecodePush, CommandIsCurrent
<1>22. CASE DecodeThrow
  BY <1>22 DEF DecodeThrow
<1>23. CASE DecodeFinish
  BY <1>23 DEF DecodeFinish
<1>24. ASSUME NEW a \in Actors, ReopenLock(a) PROVE ShutdownInv'
  BY <1>24 DEF ReopenLock, StreamMutexFree, Failed, ReopenTo
<1>25. ASSUME NEW a \in Actors, ReopenClose(a) PROVE ShutdownInv'
  BY <1>25 DEF ReopenClose, ReopenTo
<1>26. ASSUME NEW a \in Actors, ReopenCheck(a) PROVE ShutdownInv'
  BY <1>26 DEF ReopenCheck, Failed, ReopenTo
<1>27. ASSUME NEW a \in Actors, ReopenOpen(a) PROVE ShutdownInv'
  BY <1>27 DEF ReopenOpen, Failed, ReopenTo
<1>28. ASSUME NEW a \in Actors, ReopenRefresh(a) PROVE ShutdownInv'
  BY <1>28 DEF ReopenRefresh, Done, ReopenTo
<1>29. CASE RecoveryWake
  BY <1>29 DEF RecoveryWake, ReopenTo
<1>30. CASE RecoveryFailed
  BY <1>30 DEF RecoveryFailed, ReopenTo
<1>31. CASE CloseBegin
  BY <1>31 DEF CloseBegin, CommandMutexFree
<1>32. CASE CloseDecoder
  BY <1>32 DEF CloseDecoder
<1>33. CASE CloseUnpublish
  BY <1>33 DEF CloseUnpublish, StreamMutexFree, RecoveryJoined
<1>34. CASE CloseStream
  BY <1>34 DEF CloseStream
<1>35. CASE UNCHANGED vars
  BY <1>35 DEF vars
<1>36. QED
  BY <1>1, <1>2, <1>3, <1>4, <1>5, <1>6, <1>7, <1>8, <1>9, <1>10, <1>11, <1>12, <1>13,
     <1>14, <1>15, <1>16, <1>17, <1>18, <1>19, <1>20, <1>21, <1>22, <1>23, <1>24, <1>25,
     <1>26, <1>27, <1>28, <1>29, <1>30, <1>31, <1>32, <1>33, <1>34, <1>35
  DEF Next, Command, Callback, Worker, Reopen, Recovery, Closing, Actors

\* No step leaves a stream on a device that is no longer selected: the stream
\* mutex keeps the reopenings apart, and a selection that comes while the
\* recovery thread holds an older configuration reopens after it.
LEMMA DeviceInvStep ==
  ASSUME ShutdownInv, DeviceInv, [Next]_vars
  PROVE  DeviceInv'
<1> USE DEF ShutdownInv, DeviceInv, ReopenPlaces, Reopening, Actors
<1> USE DEF request, report, progress, callback, source, worker, endpoint, recovery, lifecycle,
           application, sound, control
<1>1. CASE Load
  BY <1>1 DEF Load, CommandMutexFree
<1>2. CASE Play
  BY <1>2 DEF Play
<1>3. CASE Pause
  BY <1>3 DEF Pause
<1>4. ASSUME NEW p \in Targets, SeekTo(p) PROVE DeviceInv'
  BY <1>4 DEF SeekTo, CommandMutexFree
<1>5. ASSUME NEW d \in Devices, SelectOutputDevice(d) PROVE DeviceInv'
  BY <1>5 DEF SelectOutputDevice, CommandMutexFree
<1>6. ASSUME NEW l \in Layouts, RenderEnter(l) PROVE DeviceInv'
  BY <1>6 DEF RenderEnter
<1>7. CASE RenderPop
  BY <1>7 DEF RenderPop
<1>8. ASSUME NEW locked \in BOOLEAN, RenderFinish(locked) PROVE DeviceInv'
  BY <1>8 DEF RenderFinish, ReportBlock, MayReport
<1>9. CASE StreamFault
  BY <1>9 DEF StreamFault
<1>10. CASE DecodeWake
  BY <1>10 DEF DecodeWake
<1>11. CASE DecodeLeave
  BY <1>11 DEF DecodeLeave
<1>12. CASE DecodeCheck
  BY <1>12 DEF DecodeCheck
<1>13. CASE DecodeOpen
  BY <1>13 DEF DecodeOpen
<1>14. CASE DecodeSeek
  BY <1>14 DEF DecodeSeek
<1>15. CASE DecodeRead
  BY <1>15 DEF DecodeRead
<1>16. CASE DecodeFailed
  BY <1>16 DEF DecodeFailed, SourceError
<1>17. CASE DecodePublishOpened
  BY <1>17 DEF DecodePublishOpened, PublishPipeline, CommandIsCurrent
<1>18. CASE DecodeReady
  BY <1>18 DEF DecodeReady, CommandIsCurrent
<1>19. CASE DecodePublishSought
  BY <1>19 DEF DecodePublishSought, PublishPipeline, CommandIsCurrent
<1>20. CASE DecodeSought
  BY <1>20 DEF DecodeSought
<1>21. CASE DecodePush
  BY <1>21 DEF DecodePush, CommandIsCurrent
<1>22. CASE DecodeThrow
  BY <1>22 DEF DecodeThrow
<1>23. CASE DecodeFinish
  BY <1>23 DEF DecodeFinish
<1>24. ASSUME NEW a \in Actors, ReopenLock(a) PROVE DeviceInv'
  BY <1>24 DEF ReopenLock, StreamMutexFree, Failed, ReopenTo
<1>25. ASSUME NEW a \in Actors, ReopenClose(a) PROVE DeviceInv'
  BY <1>25 DEF ReopenClose, ReopenTo
<1>26. ASSUME NEW a \in Actors, ReopenCheck(a) PROVE DeviceInv'
  BY <1>26 DEF ReopenCheck, Failed, ReopenTo
<1>27. ASSUME NEW a \in Actors, ReopenOpen(a) PROVE DeviceInv'
  BY <1>27 DEF ReopenOpen, Failed, ReopenTo
<1>28. ASSUME NEW a \in Actors, ReopenRefresh(a) PROVE DeviceInv'
  BY <1>28 DEF ReopenRefresh, Done, ReopenTo
<1>29. CASE RecoveryWake
  BY <1>29 DEF RecoveryWake, ReopenTo
<1>30. CASE RecoveryFailed
  BY <1>30 DEF RecoveryFailed, ReopenTo
<1>31. CASE CloseBegin
  BY <1>31 DEF CloseBegin, CommandMutexFree
<1>32. CASE CloseDecoder
  BY <1>32 DEF CloseDecoder
<1>33. CASE CloseUnpublish
  BY <1>33 DEF CloseUnpublish, StreamMutexFree, RecoveryJoined
<1>34. CASE CloseStream
  BY <1>34 DEF CloseStream
<1>35. CASE UNCHANGED vars
  BY <1>35 DEF vars
<1>36. QED
  BY <1>1, <1>2, <1>3, <1>4, <1>5, <1>6, <1>7, <1>8, <1>9, <1>10, <1>11, <1>12, <1>13,
     <1>14, <1>15, <1>16, <1>17, <1>18, <1>19, <1>20, <1>21, <1>22, <1>23, <1>24, <1>25,
     <1>26, <1>27, <1>28, <1>29, <1>30, <1>31, <1>32, <1>33, <1>34, <1>35
  DEF Next, Command, Callback, Worker, Reopen, Recovery, Closing, Actors

\* Every step that ends the loading or the playing withdraws the wish to play,
\* and every step that sets the wish sets a status that shows it.
LEMMA IntentInvStep ==
  ASSUME IntentInv, [Next]_vars
  PROVE  IntentInv'
<1> USE DEF IntentInv, IntentIsVisible, Actors
<1> USE DEF request, report, progress, callback, source, worker, endpoint, recovery, lifecycle,
           application, sound, control
<1>1. CASE Load
  BY <1>1 DEF Load, CommandMutexFree
<1>2. CASE Play
  BY <1>2 DEF Play
<1>3. CASE Pause
  BY <1>3 DEF Pause
<1>4. ASSUME NEW p \in Targets, SeekTo(p) PROVE IntentInv'
  BY <1>4 DEF SeekTo, CommandMutexFree
<1>5. ASSUME NEW d \in Devices, SelectOutputDevice(d) PROVE IntentInv'
  BY <1>5 DEF SelectOutputDevice, CommandMutexFree
<1>6. ASSUME NEW l \in Layouts, RenderEnter(l) PROVE IntentInv'
  BY <1>6 DEF RenderEnter
<1>7. CASE RenderPop
  BY <1>7 DEF RenderPop
<1>8. ASSUME NEW locked \in BOOLEAN, RenderFinish(locked) PROVE IntentInv'
  BY <1>8 DEF RenderFinish, ReportBlock, MayReport
<1>9. CASE StreamFault
  BY <1>9 DEF StreamFault
<1>10. CASE DecodeWake
  BY <1>10 DEF DecodeWake
<1>11. CASE DecodeLeave
  BY <1>11 DEF DecodeLeave
<1>12. CASE DecodeCheck
  BY <1>12 DEF DecodeCheck
<1>13. CASE DecodeOpen
  BY <1>13 DEF DecodeOpen
<1>14. CASE DecodeSeek
  BY <1>14 DEF DecodeSeek
<1>15. CASE DecodeRead
  BY <1>15 DEF DecodeRead
<1>16. CASE DecodeFailed
  BY <1>16 DEF DecodeFailed, SourceError
<1>17. CASE DecodePublishOpened
  BY <1>17 DEF DecodePublishOpened, PublishPipeline, CommandIsCurrent
<1>18. CASE DecodeReady
  BY <1>18 DEF DecodeReady, CommandIsCurrent
<1>19. CASE DecodePublishSought
  BY <1>19 DEF DecodePublishSought, PublishPipeline, CommandIsCurrent
<1>20. CASE DecodeSought
  BY <1>20 DEF DecodeSought
<1>21. CASE DecodePush
  BY <1>21 DEF DecodePush, CommandIsCurrent
<1>22. CASE DecodeThrow
  BY <1>22 DEF DecodeThrow
<1>23. CASE DecodeFinish
  BY <1>23 DEF DecodeFinish
<1>24. ASSUME NEW a \in Actors, ReopenLock(a) PROVE IntentInv'
  BY <1>24 DEF ReopenLock, StreamMutexFree, Failed, ReopenTo
<1>25. ASSUME NEW a \in Actors, ReopenClose(a) PROVE IntentInv'
  BY <1>25 DEF ReopenClose, ReopenTo
<1>26. ASSUME NEW a \in Actors, ReopenCheck(a) PROVE IntentInv'
  BY <1>26 DEF ReopenCheck, Failed, ReopenTo
<1>27. ASSUME NEW a \in Actors, ReopenOpen(a) PROVE IntentInv'
  BY <1>27 DEF ReopenOpen, Failed, ReopenTo
<1>28. ASSUME NEW a \in Actors, ReopenRefresh(a) PROVE IntentInv'
  BY <1>28 DEF ReopenRefresh, Done, ReopenTo
<1>29. CASE RecoveryWake
  BY <1>29 DEF RecoveryWake, ReopenTo
<1>30. CASE RecoveryFailed
  BY <1>30 DEF RecoveryFailed, ReopenTo
<1>31. CASE CloseBegin
  BY <1>31 DEF CloseBegin, CommandMutexFree
<1>32. CASE CloseDecoder
  BY <1>32 DEF CloseDecoder
<1>33. CASE CloseUnpublish
  BY <1>33 DEF CloseUnpublish, StreamMutexFree, RecoveryJoined
<1>34. CASE CloseStream
  BY <1>34 DEF CloseStream
<1>35. CASE UNCHANGED vars
  BY <1>35 DEF vars
<1>36. QED
  BY <1>1, <1>2, <1>3, <1>4, <1>5, <1>6, <1>7, <1>8, <1>9, <1>10, <1>11, <1>12, <1>13,
     <1>14, <1>15, <1>16, <1>17, <1>18, <1>19, <1>20, <1>21, <1>22, <1>23, <1>24, <1>25,
     <1>26, <1>27, <1>28, <1>29, <1>30, <1>31, <1>32, <1>33, <1>34, <1>35
  DEF Next, Command, Callback, Worker, Reopen, Recovery, Closing, Actors

\* The types of the control side are kept.
LEMMA DeviceTypesStep ==
  ASSUME DeviceInv, DeviceTypes, [Next]_vars
  PROVE  DeviceTypes'
<1> USE DEF DeviceInv, DeviceTypes, Reopening, Actors, ReopenPlaces, ReportBlock
<1> USE DEF request, report, progress, callback, source, worker, endpoint, recovery, lifecycle,
           application, sound, control
<1>1. CASE Load
  BY <1>1 DEF Load, CommandMutexFree
<1>2. CASE Play
  BY <1>2 DEF Play
<1>3. CASE Pause
  BY <1>3 DEF Pause
<1>4. ASSUME NEW p \in Targets, SeekTo(p) PROVE DeviceTypes'
  BY <1>4 DEF SeekTo, CommandMutexFree
<1>5. ASSUME NEW d \in Devices, SelectOutputDevice(d) PROVE DeviceTypes'
  BY <1>5 DEF SelectOutputDevice, CommandMutexFree
<1>6. ASSUME NEW l \in Layouts, RenderEnter(l) PROVE DeviceTypes'
  BY <1>6 DEF RenderEnter
<1>7. CASE RenderPop
  BY <1>7 DEF RenderPop
<1>8. ASSUME NEW locked \in BOOLEAN, RenderFinish(locked) PROVE DeviceTypes'
  BY <1>8 DEF RenderFinish, ReportBlock, MayReport
<1>9. CASE StreamFault
  BY <1>9 DEF StreamFault
<1>10. CASE DecodeWake
  BY <1>10 DEF DecodeWake
<1>11. CASE DecodeLeave
  BY <1>11 DEF DecodeLeave
<1>12. CASE DecodeCheck
  BY <1>12 DEF DecodeCheck
<1>13. CASE DecodeOpen
  BY <1>13 DEF DecodeOpen
<1>14. CASE DecodeSeek
  BY <1>14 DEF DecodeSeek
<1>15. CASE DecodeRead
  BY <1>15 DEF DecodeRead
<1>16. CASE DecodeFailed
  BY <1>16 DEF DecodeFailed, SourceError
<1>17. CASE DecodePublishOpened
  BY <1>17 DEF DecodePublishOpened, PublishPipeline, CommandIsCurrent
<1>18. CASE DecodeReady
  BY <1>18 DEF DecodeReady, CommandIsCurrent
<1>19. CASE DecodePublishSought
  BY <1>19 DEF DecodePublishSought, PublishPipeline, CommandIsCurrent
<1>20. CASE DecodeSought
  BY <1>20 DEF DecodeSought
<1>21. CASE DecodePush
  BY <1>21 DEF DecodePush, CommandIsCurrent
<1>22. CASE DecodeThrow
  BY <1>22 DEF DecodeThrow
<1>23. CASE DecodeFinish
  BY <1>23 DEF DecodeFinish
<1>24. ASSUME NEW a \in Actors, ReopenLock(a) PROVE DeviceTypes'
  BY <1>24 DEF ReopenLock, StreamMutexFree, Failed, ReopenTo
<1>25. ASSUME NEW a \in Actors, ReopenClose(a) PROVE DeviceTypes'
  BY <1>25 DEF ReopenClose, ReopenTo
<1>26. ASSUME NEW a \in Actors, ReopenCheck(a) PROVE DeviceTypes'
  BY <1>26 DEF ReopenCheck, Failed, ReopenTo
<1>27. ASSUME NEW a \in Actors, ReopenOpen(a) PROVE DeviceTypes'
  BY <1>27 DEF ReopenOpen, Failed, ReopenTo
<1>28. ASSUME NEW a \in Actors, ReopenRefresh(a) PROVE DeviceTypes'
  BY <1>28 DEF ReopenRefresh, Done, ReopenTo
<1>29. CASE RecoveryWake
  BY <1>29 DEF RecoveryWake, ReopenTo
<1>30. CASE RecoveryFailed
  BY <1>30 DEF RecoveryFailed, ReopenTo
<1>31. CASE CloseBegin
  BY <1>31 DEF CloseBegin, CommandMutexFree
<1>32. CASE CloseDecoder
  BY <1>32 DEF CloseDecoder
<1>33. CASE CloseUnpublish
  BY <1>33 DEF CloseUnpublish, StreamMutexFree, RecoveryJoined
<1>34. CASE CloseStream
  BY <1>34 DEF CloseStream
<1>35. CASE UNCHANGED vars
  BY <1>35 DEF vars
<1>36. QED
  BY <1>1, <1>2, <1>3, <1>4, <1>5, <1>6, <1>7, <1>8, <1>9, <1>10, <1>11, <1>12, <1>13,
     <1>14, <1>15, <1>16, <1>17, <1>18, <1>19, <1>20, <1>21, <1>22, <1>23, <1>24, <1>25,
     <1>26, <1>27, <1>28, <1>29, <1>30, <1>31, <1>32, <1>33, <1>34, <1>35
  DEF Next, Command, Callback, Worker, Reopen, Recovery, Closing, Actors

\* The flags stay flags.
LEMMA FlagTypesStep ==
  ASSUME FlagTypes, [Next]_vars
  PROVE  FlagTypes'
<1> USE SessionAssumption
<1> USE DEF FlagTypes, ReportBlock
<1> USE DEF request, report, progress, callback, source, worker, endpoint, recovery, lifecycle,
           application, sound, control
<1>1. CASE Load
  BY <1>1 DEF Load, CommandMutexFree
<1>2. CASE Play
  BY <1>2 DEF Play
<1>3. CASE Pause
  BY <1>3 DEF Pause
<1>4. ASSUME NEW p \in Targets, SeekTo(p) PROVE FlagTypes'
  BY <1>4 DEF SeekTo, CommandMutexFree
<1>5. ASSUME NEW d \in Devices, SelectOutputDevice(d) PROVE FlagTypes'
  BY <1>5 DEF SelectOutputDevice, CommandMutexFree
<1>6. ASSUME NEW l \in Layouts, RenderEnter(l) PROVE FlagTypes'
  BY <1>6 DEF RenderEnter
<1>7. CASE RenderPop
  BY <1>7 DEF RenderPop
<1>8. ASSUME NEW locked \in BOOLEAN, RenderFinish(locked) PROVE FlagTypes'
  BY <1>8 DEF RenderFinish, ReportBlock, MayReport
<1>9. CASE StreamFault
  BY <1>9 DEF StreamFault
<1>10. CASE DecodeWake
  BY <1>10 DEF DecodeWake
<1>11. CASE DecodeLeave
  BY <1>11 DEF DecodeLeave
<1>12. CASE DecodeCheck
  BY <1>12 DEF DecodeCheck
<1>13. CASE DecodeOpen
  BY <1>13 DEF DecodeOpen
<1>14. CASE DecodeSeek
  BY <1>14 DEF DecodeSeek
<1>15. CASE DecodeRead
  BY <1>15 DEF DecodeRead
<1>16. CASE DecodeFailed
  BY <1>16 DEF DecodeFailed, SourceError
<1>17. CASE DecodePublishOpened
  BY <1>17 DEF DecodePublishOpened, PublishPipeline, CommandIsCurrent
<1>18. CASE DecodeReady
  BY <1>18 DEF DecodeReady, CommandIsCurrent
<1>19. CASE DecodePublishSought
  BY <1>19 DEF DecodePublishSought, PublishPipeline, CommandIsCurrent
<1>20. CASE DecodeSought
  BY <1>20 DEF DecodeSought
<1>21. CASE DecodePush
  BY <1>21 DEF DecodePush, CommandIsCurrent
<1>22. CASE DecodeThrow
  BY <1>22 DEF DecodeThrow
<1>23. CASE DecodeFinish
  BY <1>23 DEF DecodeFinish
<1>24. ASSUME NEW a \in Actors, ReopenLock(a) PROVE FlagTypes'
  BY <1>24 DEF ReopenLock, StreamMutexFree, Failed, ReopenTo
<1>25. ASSUME NEW a \in Actors, ReopenClose(a) PROVE FlagTypes'
  BY <1>25 DEF ReopenClose, ReopenTo
<1>26. ASSUME NEW a \in Actors, ReopenCheck(a) PROVE FlagTypes'
  BY <1>26 DEF ReopenCheck, Failed, ReopenTo
<1>27. ASSUME NEW a \in Actors, ReopenOpen(a) PROVE FlagTypes'
  BY <1>27 DEF ReopenOpen, Failed, ReopenTo
<1>28. ASSUME NEW a \in Actors, ReopenRefresh(a) PROVE FlagTypes'
  BY <1>28 DEF ReopenRefresh, Done, ReopenTo
<1>29. CASE RecoveryWake
  BY <1>29 DEF RecoveryWake, ReopenTo
<1>30. CASE RecoveryFailed
  BY <1>30 DEF RecoveryFailed, ReopenTo
<1>31. CASE CloseBegin
  BY <1>31 DEF CloseBegin, CommandMutexFree
<1>32. CASE CloseDecoder
  BY <1>32 DEF CloseDecoder
<1>33. CASE CloseUnpublish
  BY <1>33 DEF CloseUnpublish, StreamMutexFree, RecoveryJoined
<1>34. CASE CloseStream
  BY <1>34 DEF CloseStream
<1>35. CASE UNCHANGED vars
  BY <1>35 DEF vars
<1>36. QED
  BY <1>1, <1>2, <1>3, <1>4, <1>5, <1>6, <1>7, <1>8, <1>9, <1>10, <1>11, <1>12, <1>13,
     <1>14, <1>15, <1>16, <1>17, <1>18, <1>19, <1>20, <1>21, <1>22, <1>23, <1>24, <1>25,
     <1>26, <1>27, <1>28, <1>29, <1>30, <1>31, <1>32, <1>33, <1>34, <1>35
  DEF Next, Command, Callback, Worker, Reopen, Recovery, Closing, Actors

-----------------------------------------------------------------------------
\* The control invariant holds in every reachable state.
LEMMA ControlInvariance == Spec => []ControlInv
<1>1. ControlInv /\ [Next]_vars => ControlInv'
  BY ShutdownInvStep, DeviceInvStep, IntentInvStep, DeviceTypesStep, FlagTypesStep
  DEF ControlInv
<1>2. QED BY ControlInit, <1>1, PTL DEF Spec

\* The wish to play is always visible: wherever the code leaves
\* playback_intent_playing_ set, the reported status is loading or playing.
THEOREM IntentVisible == Spec => []IntentIsVisible
<1>1. ControlInv => IntentIsVisible
  BY DEF ControlInv, IntentInv
<1>2. QED BY ControlInvariance, <1>1, PTL

\* Unless select_output_device is still at work, a running stream plays on the
\* device that was selected last, whatever the recovery thread was doing when
\* the selection came.
THEOREM DeviceSelected == Spec => []OpenDeviceIsSelected
<1>1. ControlInv => OpenDeviceIsSelected
  BY DEF ControlInv, DeviceInv, OpenDeviceIsSelected
<1>2. QED BY ControlInvariance, <1>1, PTL

\* When close() has returned, nothing is published or playing, the recovery
\* thread is gone and the stream closed.
THEOREM ClosedQuiet == Spec => []ClosedIsQuiet
<1>1. ControlInv => ClosedIsQuiet
  BY DEF ControlInv, ShutdownInv, ClosedIsQuiet
<1>2. QED BY ControlInvariance, <1>1, PTL

\* Once shutting_down_ is set no thread reports anything any more.
LEMMA SilentStep ==
  ASSUME ShutdownInv, [Next]_vars, shuttingDown
  PROVE  UNCHANGED <<status, position, completionToken, progress>>
<1> DEFINE Silent == UNCHANGED <<status, position, completionToken, progress>>
<1> USE DEF ShutdownInv, Actors, CommandIsCurrent, MayReport
<1> USE DEF request, report, progress, callback, source, worker, endpoint, recovery, lifecycle,
           application, sound, control
<1>1. CASE Load
  BY <1>1 DEF Load, CommandMutexFree
<1>2. CASE Play
  BY <1>2 DEF Play
<1>3. CASE Pause
  BY <1>3 DEF Pause
<1>4. ASSUME NEW p \in Targets, SeekTo(p) PROVE Silent
  BY <1>4 DEF SeekTo, CommandMutexFree
<1>5. ASSUME NEW d \in Devices, SelectOutputDevice(d) PROVE Silent
  BY <1>5 DEF SelectOutputDevice, CommandMutexFree
<1>6. ASSUME NEW l \in Layouts, RenderEnter(l) PROVE Silent
  BY <1>6 DEF RenderEnter
<1>7. CASE RenderPop
  BY <1>7 DEF RenderPop
<1>8. ASSUME NEW locked \in BOOLEAN, RenderFinish(locked) PROVE Silent
  BY <1>8 DEF RenderFinish, ReportBlock, MayReport
<1>9. CASE StreamFault
  BY <1>9 DEF StreamFault
<1>10. CASE DecodeWake
  BY <1>10 DEF DecodeWake
<1>11. CASE DecodeLeave
  BY <1>11 DEF DecodeLeave
<1>12. CASE DecodeCheck
  BY <1>12 DEF DecodeCheck
<1>13. CASE DecodeOpen
  BY <1>13 DEF DecodeOpen
<1>14. CASE DecodeSeek
  BY <1>14 DEF DecodeSeek
<1>15. CASE DecodeRead
  BY <1>15 DEF DecodeRead
<1>16. CASE DecodeFailed
  BY <1>16 DEF DecodeFailed, SourceError
<1>17. CASE DecodePublishOpened
  BY <1>17 DEF DecodePublishOpened, PublishPipeline, CommandIsCurrent
<1>18. CASE DecodeReady
  BY <1>18 DEF DecodeReady, CommandIsCurrent
<1>19. CASE DecodePublishSought
  BY <1>19 DEF DecodePublishSought, PublishPipeline, CommandIsCurrent
<1>20. CASE DecodeSought
  BY <1>20 DEF DecodeSought
<1>21. CASE DecodePush
  BY <1>21 DEF DecodePush, CommandIsCurrent
<1>22. CASE DecodeThrow
  BY <1>22 DEF DecodeThrow
<1>23. CASE DecodeFinish
  BY <1>23 DEF DecodeFinish
<1>24. ASSUME NEW a \in Actors, ReopenLock(a) PROVE Silent
  BY <1>24 DEF ReopenLock, StreamMutexFree, Failed, ReopenTo
<1>25. ASSUME NEW a \in Actors, ReopenClose(a) PROVE Silent
  BY <1>25 DEF ReopenClose, ReopenTo
<1>26. ASSUME NEW a \in Actors, ReopenCheck(a) PROVE Silent
  BY <1>26 DEF ReopenCheck, Failed, ReopenTo
<1>27. ASSUME NEW a \in Actors, ReopenOpen(a) PROVE Silent
  BY <1>27 DEF ReopenOpen, Failed, ReopenTo
<1>28. ASSUME NEW a \in Actors, ReopenRefresh(a) PROVE Silent
  BY <1>28 DEF ReopenRefresh, Done, ReopenTo
<1>29. CASE RecoveryWake
  BY <1>29 DEF RecoveryWake, ReopenTo
<1>30. CASE RecoveryFailed
  BY <1>30 DEF RecoveryFailed, ReopenTo
<1>31. CASE CloseBegin
  BY <1>31 DEF CloseBegin, CommandMutexFree
<1>32. CASE CloseDecoder
  BY <1>32 DEF CloseDecoder
<1>33. CASE CloseUnpublish
  BY <1>33 DEF CloseUnpublish, StreamMutexFree, RecoveryJoined
<1>34. CASE CloseStream
  BY <1>34 DEF CloseStream
<1>35. CASE UNCHANGED vars
  BY <1>35 DEF vars
<1>36. QED
  BY <1>1, <1>2, <1>3, <1>4, <1>5, <1>6, <1>7, <1>8, <1>9, <1>10, <1>11, <1>12, <1>13,
     <1>14, <1>15, <1>16, <1>17, <1>18, <1>19, <1>20, <1>21, <1>22, <1>23, <1>24, <1>25,
     <1>26, <1>27, <1>28, <1>29, <1>30, <1>31, <1>32, <1>33, <1>34, <1>35
  DEF Next, Command, Callback, Worker, Reopen, Recovery, Closing, Actors

\* Once close() has begun, the snapshot is frozen: status, position, completion
\* token and the wish to play are never written again.
THEOREM SilentShutdown == Spec => ShutdownSilent
<1>1. ControlInv /\ [Next]_vars
        => [shuttingDown => UNCHANGED <<status, position, completionToken, progress>>]_vars
  BY SilentStep DEF ControlInv
<1>2. QED BY ControlInvariance, <1>1, PTL DEF Spec, ShutdownSilent
=============================================================================
