SPECIFICATION Spec
CONSTANTS
 Off=Off
 Scenes={"bands","windows","feed","recordings","trunking","installs","sound"}
 Clients={c1,c2}
 Points<-MCPoints
 Written<-MCWritten
 Touched<-MCTouched
 Shipped<-MCShipped
 Saved<-MCSaved
 MaxRequests=2
 Kinds={"lora","ble","goes","hf","rds"}
 Cap<-MCCap
 Least<-MCLeast
 ChunkUnits<-MCChunk
 MaxLength=3
 MaxUnits=7
 FeedKinds={"psiq","rtl_tcp","ring","latest"}
 Capacity=4
 MaxPayload=2
 BlockSize=3
 ReadSize=2
 MaxFlight=2
 MaxSamples=9
 Users={u1,u2}
 Paths={p1,p2}
 Jobs={j1}
 Chunk=2
 MaxFile=3
 MaxStarts=3
 MaxCrashes=1
 Requests={r1}
 Systems={s1,s2}
 Talkgroups={tg1,tg2}
 tg1=tg1
 tg2=tg2
 Observations<-MCObservations
 VoiceTables<-MCVoiceTables
 NotNamed=NotNamed
 MaxEdits=3
 MaxObserved=2
 Decoders={"rtl_433","rs41mod"}
 Downloadable={"rtl_433"}
 OnSystem={"rs41mod"}
 Installs={i1,i2}
 Editors={e1}
 MaxSettings=2
 MaxInstalls=2
 FrameInstants=2
 MaxPush=3
 QueueSize=3
 RingSize=3
 MaxInstants=7
 MaxOutput=2
INVARIANTS RetuneSettles OperatorBanksSurvive BurstsHeard IqIntact FilesDescribed FramesAligned
PROPERTIES OnlyWatchedFollowed ConfigKept
CHECK_DEADLOCK FALSE
