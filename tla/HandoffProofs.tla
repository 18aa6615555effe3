--------------------------- MODULE HandoffProofs ---------------------------
(***************************************************************************)
(* Theorems about the exchange of Word-RAM banks, for every movie length.  *)
(***************************************************************************)
EXTENDS HandoffInv, TLAPS

LEMMA ParityFlips == \A n \in Nat : Parity(n) \in {0, 1} /\ Parity(n + 1) = 1 - Parity(n)
  BY DEF Parity

LEMMA Contents ==
  /\ {Junk, Stage, Foreign, NoRuns, Black} \subseteq Content
  /\ Nat \subseteq Content
  BY DEF Content

LEMMA InitInv == Init => Inv
<1> SUFFICES ASSUME Init PROVE Inv
  OBVIOUS
<1>1. TypeOK
  BY FrameCountsAssumption, Contents DEF Init, TypeOK, MainPc, SubPc, Bank
<1>2. MainOK
  BY DEF Init, MainOK, Streaming, Building
<1>3. SubOK /\ CountOK
  BY DEF Init, SubOK, CountOK, HasGiven
<1>4. DataOK /\ WordOK /\ StageOK /\ SoundOK
  BY DEF Init, DataOK, WordOK, StageOK, SoundOK, HasGiven, Playing
<1> QED
  BY <1>1, <1>2, <1>3, <1>4 DEF Inv

\* Every step stays within the types: what is written in a bank is one of its
\* contents, and neither CPU counts past the movie.
LEMMA TypeStep == Inv /\ [Next]_vars => TypeOK'
<1> SUFFICES ASSUME Inv, [Next]_vars PROVE TypeOK'
  OBVIOUS
<1> USE FrameCountsAssumption, Contents
    DEF Inv, TypeOK, MainPc, SubPc, Bank, subBank, regs, banks, build,
        mainLoop, subLoop, mainVars, subVars, MainGoes, SubGoes,
        Exchange
<1>1. CASE RequestStream
  BY <1>1 DEF RequestStream
<1>2. CASE SeeBootStage
  BY <1>2 DEF SeeBootStage
<1>3. CASE CopyBootStage
  BY <1>3 DEF CopyBootStage
<1>4. CASE AckBootStage
  BY <1>4 DEF AckBootStage
<1>5. CASE BootStageTaken
  BY <1>5 DEF BootStageTaken
<1>6. CASE SeeFrame0Ready
  BY <1>6 DEF SeeFrame0Ready
<1>7. CASE PlayLoop
  BY <1>7 DEF PlayLoop
<1>8. CASE SwapAnswered
  BY <1>8 DEF SwapAnswered
<1>9. CASE SwapFinished
  BY <1>9 DEF SwapFinished
<1>10. CASE BuildNames
  BY <1>10 DEF BuildNames
<1>11. CASE BuildPatterns
  BY <1>11 DEF BuildPatterns
<1>12. CASE ReturnBank
  BY <1>12 DEF ReturnBank
<1>13. CASE Publish
  BY <1>13 DEF Publish, SubOK, CountOK, HasGiven, Given, Asked, InLoop, Building
<1>14. CASE StartPlayback
  BY <1>14 DEF StartPlayback
<1>15. CASE PlaybackStarted
  BY <1>15 DEF PlaybackStarted, MainOK
<1>16. CASE AcceptStream
  BY <1>16 DEF AcceptStream
<1>17. CASE LoadStage
  BY <1>17 DEF LoadStage
<1>18. CASE GiveStage
  BY <1>18 DEF GiveStage
<1>19. CASE OfferStage
  BY <1>19 DEF OfferStage
<1>20. CASE TakeStageBack
  BY <1>20 DEF TakeStageBack
<1>21. CASE StageReturned
  BY <1>21 DEF StageReturned
<1>22. CASE LoadWr(0, "load_wr0", "swap_wr")
  BY <1>22 DEF LoadWr
<1>23. CASE SwapWr("swap_wr", "load_wr1")
  BY <1>23 DEF SwapWr
<1>24. CASE LoadWr(1, "load_wr1", "swap_wr_back")
  BY <1>24 DEF LoadWr
<1>25. CASE SwapWr("swap_wr_back", "frame0")
  BY <1>25 DEF SwapWr
<1>26. CASE ExpandFrame0
  BY <1>26 DEF ExpandFrame0
<1>27. CASE GiveFrame0
  BY <1>27 DEF GiveFrame0
<1>28. CASE Frame0Ready
  BY <1>28 DEF Frame0Ready
<1>29. CASE StartTimedSuffix
  BY <1>29 DEF StartTimedSuffix
<1>30. CASE StartupReady
  BY <1>30 DEF StartupReady
<1>31. CASE ProcessFrame
  BY <1>31 DEF ProcessFrame
<1>32. CASE ExpandFrame
  BY <1>32 DEF ExpandFrame, CountOK, HasGiven, Given
<1>33. CASE GiveFrame
  BY <1>33 DEF GiveFrame
<1>34. CASE FrameReady
  BY <1>34 DEF FrameReady
<1>35. CASE FrameReleased
  BY <1>35 DEF FrameReleased
<1>36. CASE MovieEnd
  BY <1>36 DEF MovieEnd
<1>37. CASE ExchangeAtEnd
  BY <1>37 DEF ExchangeAtEnd
<1>38. CASE AnswerEnd
  BY <1>38 DEF AnswerEnd
<1>39. CASE EndReleased
  BY <1>39 DEF EndReleased
<1>40. CASE Replay
  BY <1>40 DEF Replay
<1>41. CASE MuteAtEnd
  BY <1>41 DEF MuteAtEnd
<1>42. CASE UNCHANGED vars
  BY <1>42 DEF vars
<1> QED
  BY <1>1, <1>2, <1>3, <1>4, <1>5, <1>6, <1>7, <1>8, <1>9, <1>10,
     <1>11, <1>12, <1>13, <1>14, <1>15, <1>16, <1>17, <1>18, <1>19,
     <1>20, <1>21, <1>22, <1>23, <1>24, <1>25, <1>26, <1>27, <1>28,
     <1>29, <1>30, <1>31, <1>32, <1>33, <1>34, <1>35, <1>36, <1>37,
     <1>38, <1>39, <1>40, <1>41, <1>42
     DEF Next, MainNext, SubNext

\* Main's commands follow from where it is and what it has asked for.
LEMMA MainStep == Inv /\ [Next]_vars => MainOK'
<1> SUFFICES ASSUME Inv, [Next]_vars PROVE MainOK'
  OBVIOUS
<1> USE FrameCountsAssumption
    DEF Inv, TypeOK, MainOK, Streaming, Building, regs, banks, build,
        mainLoop, subLoop, mainVars, subVars, MainGoes, SubGoes,
        Exchange
<1>1. CASE RequestStream
  BY <1>1 DEF RequestStream
<1>2. CASE SeeBootStage
  BY <1>2 DEF SeeBootStage
<1>3. CASE CopyBootStage
  BY <1>3 DEF CopyBootStage
<1>4. CASE AckBootStage
  BY <1>4 DEF AckBootStage
<1>5. CASE BootStageTaken
  BY <1>5 DEF BootStageTaken
<1>6. CASE SeeFrame0Ready
  BY <1>6 DEF SeeFrame0Ready
<1>7. CASE PlayLoop
  BY <1>7 DEF PlayLoop
<1>8. CASE SwapAnswered
  BY <1>8 DEF SwapAnswered
<1>9. CASE SwapFinished
  BY <1>9 DEF SwapFinished
<1>10. CASE BuildNames
  BY <1>10 DEF BuildNames
<1>11. CASE BuildPatterns
  BY <1>11 DEF BuildPatterns
<1>12. CASE ReturnBank
  BY <1>12 DEF ReturnBank
<1>13. CASE Publish
  BY <1>13 DEF Publish
<1>14. CASE StartPlayback
  BY <1>14 DEF StartPlayback
<1>15. CASE PlaybackStarted
  BY <1>15 DEF PlaybackStarted
<1>16. CASE AcceptStream
  BY <1>16 DEF AcceptStream
<1>17. CASE LoadStage
  BY <1>17 DEF LoadStage
<1>18. CASE GiveStage
  BY <1>18 DEF GiveStage
<1>19. CASE OfferStage
  BY <1>19 DEF OfferStage
<1>20. CASE TakeStageBack
  BY <1>20 DEF TakeStageBack
<1>21. CASE StageReturned
  BY <1>21 DEF StageReturned
<1>22. CASE LoadWr(0, "load_wr0", "swap_wr")
  BY <1>22 DEF LoadWr
<1>23. CASE SwapWr("swap_wr", "load_wr1")
  BY <1>23 DEF SwapWr
<1>24. CASE LoadWr(1, "load_wr1", "swap_wr_back")
  BY <1>24 DEF LoadWr
<1>25. CASE SwapWr("swap_wr_back", "frame0")
  BY <1>25 DEF SwapWr
<1>26. CASE ExpandFrame0
  BY <1>26 DEF ExpandFrame0
<1>27. CASE GiveFrame0
  BY <1>27 DEF GiveFrame0
<1>28. CASE Frame0Ready
  BY <1>28 DEF Frame0Ready
<1>29. CASE StartTimedSuffix
  BY <1>29 DEF StartTimedSuffix
<1>30. CASE StartupReady
  BY <1>30 DEF StartupReady
<1>31. CASE ProcessFrame
  BY <1>31 DEF ProcessFrame
<1>32. CASE ExpandFrame
  BY <1>32 DEF ExpandFrame
<1>33. CASE GiveFrame
  BY <1>33 DEF GiveFrame
<1>34. CASE FrameReady
  BY <1>34 DEF FrameReady
<1>35. CASE FrameReleased
  BY <1>35 DEF FrameReleased
<1>36. CASE MovieEnd
  BY <1>36 DEF MovieEnd
<1>37. CASE ExchangeAtEnd
  BY <1>37 DEF ExchangeAtEnd
<1>38. CASE AnswerEnd
  BY <1>38 DEF AnswerEnd
<1>39. CASE EndReleased
  BY <1>39 DEF EndReleased
<1>40. CASE Replay
  BY <1>40 DEF Replay
<1>41. CASE MuteAtEnd
  BY <1>41 DEF MuteAtEnd
<1>42. CASE UNCHANGED vars
  BY <1>42 DEF vars
<1> QED
  BY <1>1, <1>2, <1>3, <1>4, <1>5, <1>6, <1>7, <1>8, <1>9, <1>10,
     <1>11, <1>12, <1>13, <1>14, <1>15, <1>16, <1>17, <1>18, <1>19,
     <1>20, <1>21, <1>22, <1>23, <1>24, <1>25, <1>26, <1>27, <1>28,
     <1>29, <1>30, <1>31, <1>32, <1>33, <1>34, <1>35, <1>36, <1>37,
     <1>38, <1>39, <1>40, <1>41, <1>42
     DEF Next, MainNext, SubNext

\* Main is where Sub's handshakes leave it.
LEMMA SubStep == Inv /\ [Next]_vars => SubOK'
<1> SUFFICES ASSUME Inv, [Next]_vars PROVE SubOK'
  OBVIOUS
<1> USE DEF Inv, TypeOK, MainOK, SubOK, CountOK, StageAnswerSampled,
        Streaming, Building, Asked, InLoop, regs, banks, build,
        mainLoop, subLoop, mainVars, subVars, MainGoes, SubGoes,
        Exchange
<1>1. CASE RequestStream
  BY <1>1 DEF RequestStream
<1>2. CASE SeeBootStage
  BY <1>2 DEF SeeBootStage
<1>3. CASE CopyBootStage
  BY <1>3 DEF CopyBootStage
<1>4. CASE AckBootStage
  BY <1>4 DEF AckBootStage
<1>5. CASE BootStageTaken
  BY <1>5 DEF BootStageTaken
<1>6. CASE SeeFrame0Ready
  BY <1>6 DEF SeeFrame0Ready
<1>7. CASE PlayLoop
  BY <1>7 DEF PlayLoop
<1>8. CASE SwapAnswered
  BY <1>8 DEF SwapAnswered
<1>9. CASE SwapFinished
  BY <1>9 DEF SwapFinished
<1>10. CASE BuildNames
  BY <1>10 DEF BuildNames
<1>11. CASE BuildPatterns
  BY <1>11 DEF BuildPatterns
<1>12. CASE ReturnBank
  BY <1>12 DEF ReturnBank
<1>13. CASE Publish
  BY <1>13 DEF Publish
<1>14. CASE StartPlayback
  BY <1>14 DEF StartPlayback
<1>15. CASE PlaybackStarted
  BY <1>15 DEF PlaybackStarted
<1>16. CASE AcceptStream
  BY <1>16 DEF AcceptStream
<1>17. CASE LoadStage
  BY <1>17 DEF LoadStage
<1>18. CASE GiveStage
  BY <1>18 DEF GiveStage
<1>19. CASE OfferStage
  BY <1>19 DEF OfferStage
<1>20. CASE TakeStageBack
  BY <1>20 DEF TakeStageBack
<1>21. CASE StageReturned
  BY <1>21 DEF StageReturned
<1>22. CASE LoadWr(0, "load_wr0", "swap_wr")
  BY <1>22 DEF LoadWr
<1>23. CASE SwapWr("swap_wr", "load_wr1")
  BY <1>23 DEF SwapWr
<1>24. CASE LoadWr(1, "load_wr1", "swap_wr_back")
  BY <1>24 DEF LoadWr
<1>25. CASE SwapWr("swap_wr_back", "frame0")
  BY <1>25 DEF SwapWr
<1>26. CASE ExpandFrame0
  BY <1>26 DEF ExpandFrame0
<1>27. CASE GiveFrame0
  BY <1>27 DEF GiveFrame0
<1>28. CASE Frame0Ready
  BY <1>28 DEF Frame0Ready
<1>29. CASE StartTimedSuffix
  BY <1>29 DEF StartTimedSuffix
<1>30. CASE StartupReady
  BY <1>30 DEF StartupReady
<1>31. CASE ProcessFrame
  BY <1>31 DEF ProcessFrame
<1>32. CASE ExpandFrame
  BY <1>32 DEF ExpandFrame
<1>33. CASE GiveFrame
  BY <1>33 DEF GiveFrame
<1>34. CASE FrameReady
  BY <1>34 DEF FrameReady
<1>35. CASE FrameReleased
  BY <1>35 DEF FrameReleased
<1>36. CASE MovieEnd
  BY <1>36 DEF MovieEnd
<1>37. CASE ExchangeAtEnd
  BY <1>37 DEF ExchangeAtEnd
<1>38. CASE AnswerEnd
  BY <1>38 DEF AnswerEnd
<1>39. CASE EndReleased
  BY <1>39 DEF EndReleased
<1>40. CASE Replay
  BY <1>40 DEF Replay
<1>41. CASE MuteAtEnd
  BY <1>41 DEF MuteAtEnd
<1>42. CASE UNCHANGED vars
  BY <1>42 DEF vars
<1> QED
  BY <1>1, <1>2, <1>3, <1>4, <1>5, <1>6, <1>7, <1>8, <1>9, <1>10,
     <1>11, <1>12, <1>13, <1>14, <1>15, <1>16, <1>17, <1>18, <1>19,
     <1>20, <1>21, <1>22, <1>23, <1>24, <1>25, <1>26, <1>27, <1>28,
     <1>29, <1>30, <1>31, <1>32, <1>33, <1>34, <1>35, <1>36, <1>37,
     <1>38, <1>39, <1>40, <1>41, <1>42
     DEF Next, MainNext, SubNext

\* The two frame counters keep step.
LEMMA CountStep == Inv /\ [Next]_vars => CountOK'
<1> SUFFICES ASSUME Inv, [Next]_vars PROVE CountOK'
  OBVIOUS
<1> USE FrameCountsAssumption
    DEF Inv, TypeOK, MainOK, SubOK, CountOK, HasGiven, Given,
        Streaming, Building, Asked, InLoop, regs, banks, build,
        mainLoop, subLoop, mainVars, subVars, MainGoes, SubGoes,
        Exchange
<1>1. CASE RequestStream
  BY <1>1 DEF RequestStream
<1>2. CASE SeeBootStage
  BY <1>2 DEF SeeBootStage
<1>3. CASE CopyBootStage
  BY <1>3 DEF CopyBootStage
<1>4. CASE AckBootStage
  BY <1>4 DEF AckBootStage
<1>5. CASE BootStageTaken
  BY <1>5 DEF BootStageTaken
<1>6. CASE SeeFrame0Ready
  BY <1>6 DEF SeeFrame0Ready
<1>7. CASE PlayLoop
  BY <1>7 DEF PlayLoop
<1>8. CASE SwapAnswered
  BY <1>8 DEF SwapAnswered
<1>9. CASE SwapFinished
  BY <1>9 DEF SwapFinished
<1>10. CASE BuildNames
  BY <1>10 DEF BuildNames
<1>11. CASE BuildPatterns
  BY <1>11 DEF BuildPatterns
<1>12. CASE ReturnBank
  BY <1>12 DEF ReturnBank
<1>13. CASE Publish
  BY <1>13 DEF Publish
<1>14. CASE StartPlayback
  BY <1>14 DEF StartPlayback
<1>15. CASE PlaybackStarted
  BY <1>15 DEF PlaybackStarted
<1>16. CASE AcceptStream
  BY <1>16 DEF AcceptStream
<1>17. CASE LoadStage
  BY <1>17 DEF LoadStage
<1>18. CASE GiveStage
  BY <1>18 DEF GiveStage
<1>19. CASE OfferStage
  BY <1>19 DEF OfferStage
<1>20. CASE TakeStageBack
  BY <1>20 DEF TakeStageBack
<1>21. CASE StageReturned
  BY <1>21 DEF StageReturned
<1>22. CASE LoadWr(0, "load_wr0", "swap_wr")
  BY <1>22 DEF LoadWr
<1>23. CASE SwapWr("swap_wr", "load_wr1")
  BY <1>23 DEF SwapWr
<1>24. CASE LoadWr(1, "load_wr1", "swap_wr_back")
  BY <1>24 DEF LoadWr
<1>25. CASE SwapWr("swap_wr_back", "frame0")
  BY <1>25 DEF SwapWr
<1>26. CASE ExpandFrame0
  BY <1>26 DEF ExpandFrame0
<1>27. CASE GiveFrame0
  BY <1>27 DEF GiveFrame0
<1>28. CASE Frame0Ready
  BY <1>28 DEF Frame0Ready
<1>29. CASE StartTimedSuffix
  BY <1>29 DEF StartTimedSuffix
<1>30. CASE StartupReady
  BY <1>30 DEF StartupReady
<1>31. CASE ProcessFrame
  BY <1>31 DEF ProcessFrame
<1>32. CASE ExpandFrame
  BY <1>32 DEF ExpandFrame
<1>33. CASE GiveFrame
  BY <1>33 DEF GiveFrame
<1>34. CASE FrameReady
  BY <1>34 DEF FrameReady
<1>35. CASE FrameReleased
  BY <1>35 DEF FrameReleased
<1>36. CASE MovieEnd
  BY <1>36 DEF MovieEnd
<1>37. CASE ExchangeAtEnd
  BY <1>37 DEF ExchangeAtEnd
<1>38. CASE AnswerEnd
  BY <1>38 DEF AnswerEnd
<1>39. CASE EndReleased
  BY <1>39 DEF EndReleased
<1>40. CASE Replay
  BY <1>40 DEF Replay
<1>41. CASE MuteAtEnd
  BY <1>41 DEF MuteAtEnd
<1>42. CASE UNCHANGED vars
  BY <1>42 DEF vars
<1> QED
  BY <1>1, <1>2, <1>3, <1>4, <1>5, <1>6, <1>7, <1>8, <1>9, <1>10,
     <1>11, <1>12, <1>13, <1>14, <1>15, <1>16, <1>17, <1>18, <1>19,
     <1>20, <1>21, <1>22, <1>23, <1>24, <1>25, <1>26, <1>27, <1>28,
     <1>29, <1>30, <1>31, <1>32, <1>33, <1>34, <1>35, <1>36, <1>37,
     <1>38, <1>39, <1>40, <1>41, <1>42
     DEF Next, MainNext, SubNext

\* What Main reads is what Sub wrote for that frame.
LEMMA DataStep == Inv /\ [Next]_vars => DataOK'
<1> SUFFICES ASSUME Inv, [Next]_vars PROVE DataOK'
  OBVIOUS
<1> USE FrameCountsAssumption
    DEF Inv, TypeOK, SubOK, CountOK, DataOK, HasGiven, Given, Holds,
        subBank, Bank, Asked, InLoop, Building, regs, banks, build,
        mainLoop, subLoop, mainVars, subVars, MainGoes, SubGoes,
        Exchange
<1>1. CASE RequestStream
  BY <1>1 DEF RequestStream
<1>2. CASE SeeBootStage
  BY <1>2 DEF SeeBootStage
<1>3. CASE CopyBootStage
  BY <1>3 DEF CopyBootStage
<1>4. CASE AckBootStage
  BY <1>4 DEF AckBootStage
<1>5. CASE BootStageTaken
  BY <1>5 DEF BootStageTaken
<1>6. CASE SeeFrame0Ready
  BY <1>6 DEF SeeFrame0Ready
<1>7. CASE PlayLoop
  BY <1>7 DEF PlayLoop
<1>8. CASE SwapAnswered
  BY <1>8 DEF SwapAnswered
<1>9. CASE SwapFinished
  BY <1>9 DEF SwapFinished
<1>10. CASE BuildNames
  BY <1>10 DEF BuildNames
<1>11. CASE BuildPatterns
  BY <1>11 DEF BuildPatterns, SubPc
<1>12. CASE ReturnBank
  BY <1>12 DEF ReturnBank
<1>13. CASE Publish
  BY <1>13 DEF Publish
<1>14. CASE StartPlayback
  BY <1>14 DEF StartPlayback
<1>15. CASE PlaybackStarted
  BY <1>15 DEF PlaybackStarted
<1>16. CASE AcceptStream
  BY <1>16 DEF AcceptStream
<1>17. CASE LoadStage
  BY <1>17 DEF LoadStage
<1>18. CASE GiveStage
  BY <1>18 DEF GiveStage
<1>19. CASE OfferStage
  BY <1>19 DEF OfferStage
<1>20. CASE TakeStageBack
  BY <1>20 DEF TakeStageBack
<1>21. CASE StageReturned
  BY <1>21 DEF StageReturned
<1>22. CASE LoadWr(0, "load_wr0", "swap_wr")
  BY <1>22 DEF LoadWr
<1>23. CASE SwapWr("swap_wr", "load_wr1")
  BY <1>23 DEF SwapWr
<1>24. CASE LoadWr(1, "load_wr1", "swap_wr_back")
  BY <1>24 DEF LoadWr
<1>25. CASE SwapWr("swap_wr_back", "frame0")
  BY <1>25 DEF SwapWr
<1>26. CASE ExpandFrame0
  BY <1>26 DEF ExpandFrame0
<1>27. CASE GiveFrame0
  BY <1>27 DEF GiveFrame0
<1>28. CASE Frame0Ready
  BY <1>28 DEF Frame0Ready
<1>29. CASE StartTimedSuffix
  BY <1>29 DEF StartTimedSuffix
<1>30. CASE StartupReady
  BY <1>30 DEF StartupReady
<1>31. CASE ProcessFrame
  BY <1>31 DEF ProcessFrame
<1>32. CASE ExpandFrame
  BY <1>32 DEF ExpandFrame
<1>33. CASE GiveFrame
  BY <1>33 DEF GiveFrame, MainOK, Streaming
<1>34. CASE FrameReady
  BY <1>34 DEF FrameReady
<1>35. CASE FrameReleased
  BY <1>35 DEF FrameReleased
<1>36. CASE MovieEnd
  BY <1>36 DEF MovieEnd
<1>37. CASE ExchangeAtEnd
  BY <1>37 DEF ExchangeAtEnd, MainOK, Streaming
<1>38. CASE AnswerEnd
  BY <1>38 DEF AnswerEnd
<1>39. CASE EndReleased
  BY <1>39 DEF EndReleased
<1>40. CASE Replay
  BY <1>40 DEF Replay
<1>41. CASE MuteAtEnd
  BY <1>41 DEF MuteAtEnd
<1>42. CASE UNCHANGED vars
  BY <1>42 DEF vars
<1> QED
  BY <1>1, <1>2, <1>3, <1>4, <1>5, <1>6, <1>7, <1>8, <1>9, <1>10,
     <1>11, <1>12, <1>13, <1>14, <1>15, <1>16, <1>17, <1>18, <1>19,
     <1>20, <1>21, <1>22, <1>23, <1>24, <1>25, <1>26, <1>27, <1>28,
     <1>29, <1>30, <1>31, <1>32, <1>33, <1>34, <1>35, <1>36, <1>37,
     <1>38, <1>39, <1>40, <1>41, <1>42
     DEF Next, MainNext, SubNext

\* The WordBuf of a frame's parity is in the bank that holds the frame.
LEMMA WordStep == Inv /\ [Next]_vars => WordOK'
<1> SUFFICES ASSUME Inv, [Next]_vars PROVE WordOK'
  OBVIOUS
<1> USE FrameCountsAssumption, ParityFlips
    DEF Inv, TypeOK, CountOK, WordOK, HasGiven, Given, subBank, Bank,
        regs, banks, build, mainLoop, subLoop, mainVars, subVars,
        MainGoes, SubGoes, Exchange
<1>1. CASE RequestStream
  BY <1>1 DEF RequestStream
<1>2. CASE SeeBootStage
  BY <1>2 DEF SeeBootStage
<1>3. CASE CopyBootStage
  BY <1>3 DEF CopyBootStage
<1>4. CASE AckBootStage
  BY <1>4 DEF AckBootStage
<1>5. CASE BootStageTaken
  BY <1>5 DEF BootStageTaken
<1>6. CASE SeeFrame0Ready
  BY <1>6 DEF SeeFrame0Ready
<1>7. CASE PlayLoop
  BY <1>7 DEF PlayLoop
<1>8. CASE SwapAnswered
  BY <1>8 DEF SwapAnswered
<1>9. CASE SwapFinished
  BY <1>9 DEF SwapFinished
<1>10. CASE BuildNames
  BY <1>10 DEF BuildNames
<1>11. CASE BuildPatterns
  BY <1>11 DEF BuildPatterns
<1>12. CASE ReturnBank
  BY <1>12 DEF ReturnBank
<1>13. CASE Publish
  BY <1>13 DEF Publish
<1>14. CASE StartPlayback
  BY <1>14 DEF StartPlayback
<1>15. CASE PlaybackStarted
  BY <1>15 DEF PlaybackStarted
<1>16. CASE AcceptStream
  BY <1>16 DEF AcceptStream
<1>17. CASE LoadStage
  BY <1>17 DEF LoadStage
<1>18. CASE GiveStage
  BY <1>18 DEF GiveStage
<1>19. CASE OfferStage
  BY <1>19 DEF OfferStage
<1>20. CASE TakeStageBack
  BY <1>20 DEF TakeStageBack
<1>21. CASE StageReturned
  BY <1>21 DEF StageReturned
<1>22. CASE LoadWr(0, "load_wr0", "swap_wr")
  BY <1>22 DEF LoadWr
<1>23. CASE SwapWr("swap_wr", "load_wr1")
  BY <1>23 DEF SwapWr
<1>24. CASE LoadWr(1, "load_wr1", "swap_wr_back")
  BY <1>24 DEF LoadWr
<1>25. CASE SwapWr("swap_wr_back", "frame0")
  BY <1>25 DEF SwapWr
<1>26. CASE ExpandFrame0
  BY <1>26 DEF ExpandFrame0
<1>27. CASE GiveFrame0
  BY <1>27 DEF GiveFrame0, Parity
<1>28. CASE Frame0Ready
  BY <1>28 DEF Frame0Ready
<1>29. CASE StartTimedSuffix
  BY <1>29 DEF StartTimedSuffix
<1>30. CASE StartupReady
  BY <1>30 DEF StartupReady
<1>31. CASE ProcessFrame
  BY <1>31 DEF ProcessFrame
<1>32. CASE ExpandFrame
  BY <1>32 DEF ExpandFrame
<1>33. CASE GiveFrame
  BY <1>33 DEF GiveFrame
<1>34. CASE FrameReady
  BY <1>34 DEF FrameReady
<1>35. CASE FrameReleased
  BY <1>35 DEF FrameReleased
<1>36. CASE MovieEnd
  BY <1>36 DEF MovieEnd
<1>37. CASE ExchangeAtEnd
  BY <1>37 DEF ExchangeAtEnd
<1>38. CASE AnswerEnd
  BY <1>38 DEF AnswerEnd
<1>39. CASE EndReleased
  BY <1>39 DEF EndReleased
<1>40. CASE Replay
  BY <1>40 DEF Replay
<1>41. CASE MuteAtEnd
  BY <1>41 DEF MuteAtEnd
<1>42. CASE UNCHANGED vars
  BY <1>42 DEF vars
<1> QED
  BY <1>1, <1>2, <1>3, <1>4, <1>5, <1>6, <1>7, <1>8, <1>9, <1>10,
     <1>11, <1>12, <1>13, <1>14, <1>15, <1>16, <1>17, <1>18, <1>19,
     <1>20, <1>21, <1>22, <1>23, <1>24, <1>25, <1>26, <1>27, <1>28,
     <1>29, <1>30, <1>31, <1>32, <1>33, <1>34, <1>35, <1>36, <1>37,
     <1>38, <1>39, <1>40, <1>41, <1>42
     DEF Next, MainNext, SubNext

\* The boot stage stays in its bank until Main has copied it.
LEMMA StageStep == Inv /\ [Next]_vars => StageOK'
<1> SUFFICES ASSUME Inv, [Next]_vars PROVE StageOK'
  OBVIOUS
<1> USE DEF Inv, TypeOK, SubOK, StageOK, subBank, Bank, regs, banks,
        build, mainLoop, subLoop, mainVars, subVars, MainGoes,
        SubGoes, Exchange
<1>1. CASE RequestStream
  BY <1>1 DEF RequestStream
<1>2. CASE SeeBootStage
  BY <1>2 DEF SeeBootStage
<1>3. CASE CopyBootStage
  BY <1>3 DEF CopyBootStage, SubPc, Asked, InLoop, Building
<1>4. CASE AckBootStage
  BY <1>4 DEF AckBootStage
<1>5. CASE BootStageTaken
  BY <1>5 DEF BootStageTaken
<1>6. CASE SeeFrame0Ready
  BY <1>6 DEF SeeFrame0Ready
<1>7. CASE PlayLoop
  BY <1>7 DEF PlayLoop
<1>8. CASE SwapAnswered
  BY <1>8 DEF SwapAnswered
<1>9. CASE SwapFinished
  BY <1>9 DEF SwapFinished
<1>10. CASE BuildNames
  BY <1>10 DEF BuildNames
<1>11. CASE BuildPatterns
  BY <1>11 DEF BuildPatterns
<1>12. CASE ReturnBank
  BY <1>12 DEF ReturnBank
<1>13. CASE Publish
  BY <1>13 DEF Publish
<1>14. CASE StartPlayback
  BY <1>14 DEF StartPlayback
<1>15. CASE PlaybackStarted
  BY <1>15 DEF PlaybackStarted
<1>16. CASE AcceptStream
  BY <1>16 DEF AcceptStream
<1>17. CASE LoadStage
  BY <1>17 DEF LoadStage
<1>18. CASE GiveStage
  BY <1>18 DEF GiveStage
<1>19. CASE OfferStage
  BY <1>19 DEF OfferStage
<1>20. CASE TakeStageBack
  BY <1>20 DEF TakeStageBack
<1>21. CASE StageReturned
  BY <1>21 DEF StageReturned
<1>22. CASE LoadWr(0, "load_wr0", "swap_wr")
  BY <1>22 DEF LoadWr
<1>23. CASE SwapWr("swap_wr", "load_wr1")
  BY <1>23 DEF SwapWr
<1>24. CASE LoadWr(1, "load_wr1", "swap_wr_back")
  BY <1>24 DEF LoadWr
<1>25. CASE SwapWr("swap_wr_back", "frame0")
  BY <1>25 DEF SwapWr
<1>26. CASE ExpandFrame0
  BY <1>26 DEF ExpandFrame0
<1>27. CASE GiveFrame0
  BY <1>27 DEF GiveFrame0
<1>28. CASE Frame0Ready
  BY <1>28 DEF Frame0Ready
<1>29. CASE StartTimedSuffix
  BY <1>29 DEF StartTimedSuffix
<1>30. CASE StartupReady
  BY <1>30 DEF StartupReady
<1>31. CASE ProcessFrame
  BY <1>31 DEF ProcessFrame
<1>32. CASE ExpandFrame
  BY <1>32 DEF ExpandFrame
<1>33. CASE GiveFrame
  BY <1>33 DEF GiveFrame
<1>34. CASE FrameReady
  BY <1>34 DEF FrameReady
<1>35. CASE FrameReleased
  BY <1>35 DEF FrameReleased
<1>36. CASE MovieEnd
  BY <1>36 DEF MovieEnd
<1>37. CASE ExchangeAtEnd
  BY <1>37 DEF ExchangeAtEnd
<1>38. CASE AnswerEnd
  BY <1>38 DEF AnswerEnd
<1>39. CASE EndReleased
  BY <1>39 DEF EndReleased
<1>40. CASE Replay
  BY <1>40 DEF Replay
<1>41. CASE MuteAtEnd
  BY <1>41 DEF MuteAtEnd
<1>42. CASE UNCHANGED vars
  BY <1>42 DEF vars
<1> QED
  BY <1>1, <1>2, <1>3, <1>4, <1>5, <1>6, <1>7, <1>8, <1>9, <1>10,
     <1>11, <1>12, <1>13, <1>14, <1>15, <1>16, <1>17, <1>18, <1>19,
     <1>20, <1>21, <1>22, <1>23, <1>24, <1>25, <1>26, <1>27, <1>28,
     <1>29, <1>30, <1>31, <1>32, <1>33, <1>34, <1>35, <1>36, <1>37,
     <1>38, <1>39, <1>40, <1>41, <1>42
     DEF Next, MainNext, SubNext

\* While sound plays, a frame of the movie is on the screen.
LEMMA SoundStep == Inv /\ [Next]_vars => SoundOK'
<1> SUFFICES ASSUME Inv, [Next]_vars PROVE SoundOK'
  OBVIOUS
<1> USE DEF Inv, SubOK, CountOK, DataOK, MainOK, SoundOK, TypeOK, Playing,
        Asked, InLoop, Building, Streaming, Junk, Black, Foreign,
        regs, banks, build, mainLoop, subLoop, mainVars, subVars,
        MainGoes, SubGoes, Exchange
<1>1. CASE RequestStream
  BY <1>1 DEF RequestStream
<1>2. CASE SeeBootStage
  BY <1>2 DEF SeeBootStage
<1>3. CASE CopyBootStage
  BY <1>3 DEF CopyBootStage
<1>4. CASE AckBootStage
  BY <1>4 DEF AckBootStage
<1>5. CASE BootStageTaken
  BY <1>5 DEF BootStageTaken
<1>6. CASE SeeFrame0Ready
  BY <1>6 DEF SeeFrame0Ready
<1>7. CASE PlayLoop
  BY <1>7 DEF PlayLoop
<1>8. CASE SwapAnswered
  BY <1>8 DEF SwapAnswered
<1>9. CASE SwapFinished
  BY <1>9 DEF SwapFinished
<1>10. CASE BuildNames
  BY <1>10 DEF BuildNames
<1>11. CASE BuildPatterns
  BY <1>11 DEF BuildPatterns
<1>12. CASE ReturnBank
  BY <1>12 DEF ReturnBank
<1>13. CASE Publish
  BY <1>13 DEF Publish
<1>14. CASE StartPlayback
  BY <1>14 DEF StartPlayback
<1>15. CASE PlaybackStarted
  BY <1>15 DEF PlaybackStarted
<1>16. CASE AcceptStream
  BY <1>16 DEF AcceptStream
<1>17. CASE LoadStage
  BY <1>17 DEF LoadStage
<1>18. CASE GiveStage
  BY <1>18 DEF GiveStage
<1>19. CASE OfferStage
  BY <1>19 DEF OfferStage
<1>20. CASE TakeStageBack
  BY <1>20 DEF TakeStageBack
<1>21. CASE StageReturned
  BY <1>21 DEF StageReturned
<1>22. CASE LoadWr(0, "load_wr0", "swap_wr")
  BY <1>22 DEF LoadWr
<1>23. CASE SwapWr("swap_wr", "load_wr1")
  BY <1>23 DEF SwapWr
<1>24. CASE LoadWr(1, "load_wr1", "swap_wr_back")
  BY <1>24 DEF LoadWr
<1>25. CASE SwapWr("swap_wr_back", "frame0")
  BY <1>25 DEF SwapWr
<1>26. CASE ExpandFrame0
  BY <1>26 DEF ExpandFrame0
<1>27. CASE GiveFrame0
  BY <1>27 DEF GiveFrame0
<1>28. CASE Frame0Ready
  BY <1>28 DEF Frame0Ready
<1>29. CASE StartTimedSuffix
  BY <1>29 DEF StartTimedSuffix
<1>30. CASE StartupReady
  BY <1>30 DEF StartupReady
<1>31. CASE ProcessFrame
  BY <1>31 DEF ProcessFrame
<1>32. CASE ExpandFrame
  BY <1>32 DEF ExpandFrame
<1>33. CASE GiveFrame
  BY <1>33 DEF GiveFrame
<1>34. CASE FrameReady
  BY <1>34 DEF FrameReady
<1>35. CASE FrameReleased
  BY <1>35 DEF FrameReleased
<1>36. CASE MovieEnd
  BY <1>36 DEF MovieEnd
<1>37. CASE ExchangeAtEnd
  BY <1>37 DEF ExchangeAtEnd
<1>38. CASE AnswerEnd
  BY <1>38 DEF AnswerEnd
<1>39. CASE EndReleased
  BY <1>39 DEF EndReleased
<1>40. CASE Replay
  BY <1>40 DEF Replay
<1>41. CASE MuteAtEnd
  BY <1>41 DEF MuteAtEnd
<1>42. CASE UNCHANGED vars
  BY <1>42 DEF vars
<1> QED
  BY <1>1, <1>2, <1>3, <1>4, <1>5, <1>6, <1>7, <1>8, <1>9, <1>10,
     <1>11, <1>12, <1>13, <1>14, <1>15, <1>16, <1>17, <1>18, <1>19,
     <1>20, <1>21, <1>22, <1>23, <1>24, <1>25, <1>26, <1>27, <1>28,
     <1>29, <1>30, <1>31, <1>32, <1>33, <1>34, <1>35, <1>36, <1>37,
     <1>38, <1>39, <1>40, <1>41, <1>42
     DEF Next, MainNext, SubNext

\* At every point of its program each CPU knows from the communication words
\* where the other can be, how many frames each has counted and what the banks
\* hold: Inv, which is inductive, holds in every state.
THEOREM Invariance == Spec => []Inv
<1>1. Init => Inv
  BY InitInv
<1>2. Inv /\ [Next]_vars => Inv'
  BY TypeStep, MainStep, SubStep, CountStep, DataStep, WordStep, StageStep, SoundStep
     DEF Inv
<1> QED
  BY <1>1, <1>2, PTL DEF Spec

(* The theorems *)

\* Every variable keeps its type: in particular neither Main's frame_no nor Sub's
\* frame_idx runs past h_frames, although each CPU counts for itself.
THEOREM TypeCorrect == Spec => []TypeOK
<1>1. Inv => TypeOK
  BY DEF Inv
<1> QED
  BY <1>1, Invariance, PTL

\* Main publishes under number n what Sub wrote as frame n, or the block that the
\* frame_seq check rejected, never a mixture of two frames.
THEOREM Coherence == Spec => []FrameCoherent
<1>1. Inv => FrameCoherent
  BY DEF Inv, DataOK, FrameCoherent
<1> QED
  BY <1>1, Invariance, PTL

\* Main and Sub use the WordBuf of the frame's own parity, after any number of
\* exchanges and replays.
THEOREM OwnParity == Spec => []WordBufOfParity
<1>1. Inv => WordBufOfParity
  <2> SUFFICES ASSUME Inv PROVE WordBufOfParity
    OBVIOUS
  <2>1. ASSUME mpc = "build_patterns" PROVE word[mainBank] = Parity(frame_no)
    BY <2>1 DEF Inv, TypeOK, SubOK, CountOK, WordOK, HasGiven, Given, SubPc, Asked,
                InLoop, Building
  <2>2. ASSUME spc \in {"stream_loop", "expand", "wait_swap"}
        PROVE  word[subBank] = word_owned_bank
    BY <2>2 DEF Inv, WordOK, HasGiven
  <2> QED
    BY <2>1, <2>2 DEF WordBufOfParity
<1> QED
  BY <1>1, Invariance, PTL

\* The boot stage Main copies is the one Sub loaded.
THEOREM StageKept == Spec => []StageIntact
<1>1. Inv => StageIntact
  BY DEF Inv, StageOK, StageIntact
<1> QED
  BY <1>1, Invariance, PTL

\* No sound before the first frame is on the screen, none over the black frame and
\* none in a new startup, whatever the two CPUs' speeds: the mute behind the release
\* of the end is a step of its own.
THEOREM SoundWithPicture == Spec => []SoundOnlyWithPicture
<1>1. Inv => SoundOnlyWithPicture
  BY DEF Inv, SoundOK, SubOK, MainOK, CountOK, SoundOnlyWithPicture, StartingUp, Playing, Asked,
         InLoop, Building, Streaming, TypeOK
<1> QED
  BY <1>1, Invariance, PTL

\* Sub never exchanges the banks while Main reads its own.
THEOREM Quiet == Spec => BankQuiet
<1>1. Inv /\ [Next]_vars => [mainBank' # mainBank => mpc \notin MainReads]_vars
  <2> SUFFICES ASSUME Inv, Next, mainBank' # mainBank PROVE mpc \notin MainReads
    BY DEF vars
  <2> USE DEF MainReads, Inv, SubOK, MainOK, Streaming, Building, Asked, InLoop
  <2>1. ASSUME MainNext PROVE mainBank' = mainBank
    BY <2>1 DEF MainNext, RequestStream, SeeBootStage, CopyBootStage, AckBootStage,
       BootStageTaken, SeeFrame0Ready, PlayLoop, SwapAnswered, SwapFinished, BuildNames,
       BuildPatterns, ReturnBank, Publish, StartPlayback, PlaybackStarted
  <2>2. CASE GiveStage
    BY <2>2 DEF GiveStage, Exchange, SubGoes
  <2>3. CASE TakeStageBack
    BY <2>3 DEF TakeStageBack, Exchange, SubGoes, TypeOK
  <2>4. CASE SwapWr("swap_wr", "load_wr1") \/ SwapWr("swap_wr_back", "frame0")
    BY <2>4 DEF SwapWr, Exchange, SubGoes
  <2>5. CASE GiveFrame0
    BY <2>5 DEF GiveFrame0, Exchange, SubGoes
  <2>6. CASE GiveFrame \/ ExchangeAtEnd
    BY <2>6 DEF GiveFrame, ExchangeAtEnd, Exchange, SubGoes
  <2> QED
    BY <2>1, <2>2, <2>3, <2>4, <2>5, <2>6
       DEF Next, SubNext, AcceptStream, LoadStage, OfferStage, StageReturned, LoadWr,
           ExpandFrame0, Frame0Ready, StartTimedSuffix, StartupReady, ProcessFrame,
           ExpandFrame, FrameReady, FrameReleased, MovieEnd, AnswerEnd, EndReleased,
           MuteAtEnd, Replay
<1> QED
  BY <1>1, Invariance, PTL DEF Spec, BankQuiet

(* The refinement: what the hand-over promises to the movie. *)

LEMMA RelayInit == Init => Relay!Init
<1> SUFFICES ASSUME Init PROVE Relay!Init
  OBVIOUS
<1>1. /\ ~Startup /\ frame_idx = 0 /\ frame_no = 0
      /\ frames \in FrameCounts
      /\ spc = "command" /\ mpc = "boot"
  BY DEF Init, Startup
<1>2. One(spc = "expand") = 0 /\ One(spc \in {"expand", "wait_swap"}) = 0
  BY <1>1 DEF One
<1>3. /\ One(mpc \in {"return_bank", "publish", "start_wait"}) = 0
      /\ One(mpc = "start_wait") = 0
  BY <1>1 DEF One
<1> QED
  BY <1>1, <1>2, <1>3 DEF Relay!Init

\* Every step of the two CPUs is a step of the relay, or none of its business.
LEMMA RelayStep == Inv /\ [Next]_vars => [Relay!Next]_(Relay!vars)
<1> SUFFICES ASSUME Inv, [Next]_vars PROVE [Relay!Next]_(Relay!vars)
  OBVIOUS
<1> USE FrameCountsAssumption
    DEF Inv, TypeOK, MainOK, SubOK, CountOK, Relay!Next, Relay!vars, Startup, One,
        HasGiven, Given, Streaming, Building, Asked, InLoop,
        regs, banks, build, mainLoop, subLoop, mainVars, subVars,
        MainGoes, SubGoes, Exchange
<1>1. CASE RequestStream
  BY <1>1 DEF RequestStream, Relay!Restart, SubPc
<1>2. CASE SeeBootStage
  BY <1>2 DEF SeeBootStage
<1>3. CASE CopyBootStage
  BY <1>3 DEF CopyBootStage
<1>4. CASE AckBootStage
  BY <1>4 DEF AckBootStage
<1>5. CASE BootStageTaken
  BY <1>5 DEF BootStageTaken
<1>6. CASE SeeFrame0Ready
  BY <1>6 DEF SeeFrame0Ready
<1>7. CASE PlayLoop
  BY <1>7 DEF PlayLoop
<1>8. CASE SwapAnswered
  BY <1>8 DEF SwapAnswered
<1>9. CASE SwapFinished
  BY <1>9 DEF SwapFinished
<1>10. CASE BuildNames
  BY <1>10 DEF BuildNames
<1>11. CASE BuildPatterns
  BY <1>11 DEF BuildPatterns, Relay!Read, SubPc
<1>12. CASE ReturnBank
  BY <1>12 DEF ReturnBank
<1>13. CASE Publish
  BY <1>13 DEF Publish, Relay!Show, SubPc
<1>14. CASE StartPlayback
  BY <1>14 DEF StartPlayback, SubPc
<1>15. CASE PlaybackStarted
  BY <1>15 DEF PlaybackStarted
<1>16. CASE AcceptStream
  BY <1>16 DEF AcceptStream
<1>17. CASE LoadStage
  BY <1>17 DEF LoadStage
<1>18. CASE GiveStage
  BY <1>18 DEF GiveStage
<1>19. CASE OfferStage
  BY <1>19 DEF OfferStage
<1>20. CASE TakeStageBack
  BY <1>20 DEF TakeStageBack
<1>21. CASE StageReturned
  BY <1>21 DEF StageReturned
<1>22. CASE LoadWr(0, "load_wr0", "swap_wr")
  BY <1>22 DEF LoadWr
<1>23. CASE SwapWr("swap_wr", "load_wr1")
  BY <1>23 DEF SwapWr
<1>24. CASE LoadWr(1, "load_wr1", "swap_wr_back")
  BY <1>24 DEF LoadWr
<1>25. CASE SwapWr("swap_wr_back", "frame0")
  BY <1>25 DEF SwapWr
<1>26. CASE ExpandFrame0
  BY <1>26 DEF ExpandFrame0, Relay!Make
<1>27. CASE GiveFrame0
  BY <1>27 DEF GiveFrame0, Relay!Give
<1>28. CASE Frame0Ready
  BY <1>28 DEF Frame0Ready
<1>29. CASE StartTimedSuffix
  BY <1>29 DEF StartTimedSuffix
<1>30. CASE StartupReady
  BY <1>30 DEF StartupReady
<1>31. CASE ProcessFrame
  BY <1>31 DEF ProcessFrame, Relay!Make
<1>32. CASE ExpandFrame
  BY <1>32 DEF ExpandFrame, Relay!Make
<1>33. CASE GiveFrame
  BY <1>33 DEF GiveFrame, Relay!Give
<1>34. CASE FrameReady
  BY <1>34 DEF FrameReady
<1>35. CASE FrameReleased
  BY <1>35 DEF FrameReleased
<1>36. CASE MovieEnd
  BY <1>36 DEF MovieEnd
<1>37. CASE ExchangeAtEnd
  BY <1>37 DEF ExchangeAtEnd
<1>38. CASE AnswerEnd
  BY <1>38 DEF AnswerEnd
<1>39. CASE EndReleased
  BY <1>39 DEF EndReleased
<1>40. CASE Replay
  BY <1>40 DEF Replay
<1>41. CASE MuteAtEnd
  BY <1>41 DEF MuteAtEnd
<1>42. CASE UNCHANGED vars
  BY <1>42 DEF vars
<1> QED
  BY <1>1, <1>2, <1>3, <1>4, <1>5, <1>6, <1>7, <1>8, <1>9, <1>10,
     <1>11, <1>12, <1>13, <1>14, <1>15, <1>16, <1>17, <1>18, <1>19,
     <1>20, <1>21, <1>22, <1>23, <1>24, <1>25, <1>26, <1>27, <1>28,
     <1>29, <1>30, <1>31, <1>32, <1>33, <1>34, <1>35, <1>36, <1>37,
     <1>38, <1>39, <1>40, <1>41, <1>42
     DEF Next, MainNext, SubNext

\* Every frame goes through Sub, the bank, Main and the screen in order and once,
\* for movies of any length: the safety part of ImplementsRelay.
THEOREM RelaySafety == Spec => Relay!Spec
<1> QED
  BY RelayInit, RelayStep, Invariance, PTL DEF Spec, Relay!Spec

=============================================================================
