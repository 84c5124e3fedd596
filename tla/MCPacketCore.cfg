\* Two devices, one of which goes down and up; the operator adds
\* and deletes the class "voice".
SPECIFICATION Spec
CONSTANTS
    default = default
    voice = voice
    video = video
    Names = {default, voice}
    Default = default
    Initial <- OneQueue
    MaxAdds = 1
    Inputs = {i1, i2}
    Cancellable = {i2}
    Worker = worker
    MapKeys <- HashOrder
    Capacity <- SmallQueues
    Red = {voice}
    Configurable = {voice}
    WorkQSize = 1
    MaxPackets = 3
    NoPacket = NoPacket
    Free = Free
    Dead = Dead
INVARIANTS TypeOK CountCoversBacklog NoSleepOnBacklog QueueBound WorkerAwake
 
CHECK_DEADLOCK FALSE
